---- MODULE Spec2Model ----
(***************************************************************************)
(* Film-Explorer front end: the movie search page (MovieSearchComponent),  *)
(* the session state of AuthService that it reads, and the in-flight       *)
(* requests of MovieService, WatchlistService and CsvService.              *)
(*                                                                         *)
(* An optional value of the TypeScript source (x | undefined, x | null)    *)
(* is a tuple: <<>> when undefined/null, <<v>> when it holds v.  A request *)
(* field whose value is undefined is absent from the request.              *)
(***************************************************************************)
EXTENDS Integers, Sequences, FiniteSets, TLC

None == <<>>
Some(v) == <<v>>

(***************************************************************************)
(* Bounds of the exploration.                                              *)
(***************************************************************************)
MaxPending == 2       \* search requests in flight at once
MaxPendingAdds == 2   \* add-to-watchlist requests in flight at once, per movie
MaxPendingLookups == 2 \* membership lookups in flight at once, per movie
MaxEdits == 2         \* edits of the form before the filter is compiled
MaxExports == 1       \* CSV exports in flight at once
MaxPendingLikes == 2  \* like and unlike requests in flight at once
MaxLikes == 2         \* likes a review can show
MaxImports == 1       \* CSV imports in flight at once
MaxTimers == 1        \* timers of one kind (setTimeout) running at once
MaxItemCalls == 1     \* remove, privacy and notes requests in flight at once

\* the ids of the movies of the catalogue
MovieIds == {1, 2}

VARIABLES
    filter,               \* the filter and sort fields of MovieSearchComponent
    currentPage, pageSize, totalPages,
    isLoading, errorMessage, movies, searchResponse,
    movieWatchlistStatus, isAddingToWatchlist,
    isAuthenticated,      \* the component's field, set by ngOnInit
    isExporting,
    currentUserSubject,   \* AuthService: the BehaviorSubject's current value
    isAuthenticatedSubject,
    initialized,          \* ngOnInit has run
    navigated,            \* target of the last router.navigate, None if none
    latestPending,        \* the most recently issued search is still in flight
    stalePending,         \* number of earlier searches still in flight
    lastRequest,          \* the request of the most recently issued search
    pendingLookups,       \* WatchlistService.isInWatchlist calls in flight, per id
    pendingAdds,          \* WatchlistService.addToWatchlist calls in flight, per id
    exportRequest,        \* request handed to CsvService by the last export
    pendingExports,       \* CsvService export calls in flight
    lastOp,               \* the operation or callback that ran last
    detail,               \* the fields of MovieDetailComponent
    detailCalls,          \* the requests of MovieDetailComponent in flight
    watchlistPage,        \* the fields of WatchlistComponent
    watchlistCalls,       \* the requests of WatchlistComponent in flight
    upload,               \* MovieSearchComponent: the CSV import fields and timers
    loginPage,            \* the fields, requests and timers of LoginComponent
    registerPage          \* the fields, requests and timers of RegisterComponent

componentVars == <<filter, currentPage, pageSize, totalPages, isLoading,
                   errorMessage, movies, searchResponse, movieWatchlistStatus,
                   isAddingToWatchlist, isAuthenticated, isExporting>>
authVars == <<currentUserSubject, isAuthenticatedSubject>>
searchVars == <<latestPending, stalePending, lastRequest>>
serviceVars == <<searchVars, pendingLookups, pendingAdds, exportRequest,
                 pendingExports>>
\* the other pages of the application
pageVars == <<detail, detailCalls, watchlistPage, watchlistCalls, upload, loginPage,
             registerPage>>
vars == <<componentVars, authVars, serviceVars, initialized, navigated, lastOp,
          pageVars>>

(***************************************************************************)
(* Filter State and the Search Request                                     *)
(***************************************************************************)
FilterFields == {"searchQuery", "overview", "genres", "minRating", "maxRating",
                 "minImdbRating", "maxImdbRating", "minVoteCount", "minYear",
                 "maxYear", "minRuntime", "maxRuntime", "highlyRated", "popular",
                 "recentlyReleased", "shortRuntime", "searchForeign", "sortBy",
                 "sortDirection"}

DefaultFilter ==
    [searchQuery |-> "", overview |-> "", genres |-> <<>>,
     minRating |-> 0, maxRating |-> 10,
     minImdbRating |-> 0, maxImdbRating |-> 10,
     minVoteCount |-> 0,
     minYear |-> 1990, maxYear |-> 2025,
     minRuntime |-> 0, maxRuntime |-> 300,
     highlyRated |-> FALSE, popular |-> FALSE, recentlyReleased |-> FALSE,
     shortRuntime |-> FALSE, searchForeign |-> TRUE,
     sortBy |-> "popularity", sortDirection |-> "desc"]

RequestFields == {"query", "overview", "genres", "minRating", "maxRating",
                  "minImdbRating", "maxImdbRating", "minVoteCount", "minYear",
                  "maxYear", "minRuntime", "maxRuntime", "highlyRated", "popular",
                  "recentlyReleased", "shortRuntime", "searchForeign", "director",
                  "actors", "page", "size", "sortBy", "sortDirection"}

EmptyRequest == [k \in RequestFields |-> None]

\* s || undefined, for a string
StrOrUndefined(s) == IF s # "" THEN Some(s) ELSE None

\* b || undefined, for a boolean
BoolOrUndefined(b) == IF b THEN Some(b) ELSE None

\* the fields a request carries
PresentFields(req) == {k \in DOMAIN req : req[k] # None}

\* the request object literal of searchMovies
searchRequest(f, page, size) ==
    [EmptyRequest EXCEPT
        !.query = StrOrUndefined(f.searchQuery),
        !.overview = StrOrUndefined(f.overview),
        !.genres = IF Len(f.genres) > 0 THEN Some(f.genres) ELSE None,
        !.minRating = IF f.minRating > 0 THEN Some(f.minRating) ELSE None,
        !.maxRating = IF f.maxRating < 10 THEN Some(f.maxRating) ELSE None,
        !.minImdbRating = IF f.minImdbRating > 0 THEN Some(f.minImdbRating) ELSE None,
        !.maxImdbRating = IF f.maxImdbRating < 10 THEN Some(f.maxImdbRating) ELSE None,
        !.minVoteCount = IF f.minVoteCount > 0 THEN Some(f.minVoteCount) ELSE None,
        !.minYear = IF f.minYear > 1990 THEN Some(f.minYear) ELSE None,
        !.maxYear = IF f.maxYear < 2025 THEN Some(f.maxYear) ELSE None,
        !.minRuntime = IF f.minRuntime > 0 THEN Some(f.minRuntime) ELSE None,
        !.maxRuntime = IF f.maxRuntime < 300 THEN Some(f.maxRuntime) ELSE None,
        !.highlyRated = BoolOrUndefined(f.highlyRated),
        !.popular = BoolOrUndefined(f.popular),
        !.recentlyReleased = BoolOrUndefined(f.recentlyReleased),
        !.shortRuntime = BoolOrUndefined(f.shortRuntime),
        !.searchForeign = BoolOrUndefined(f.searchForeign),
        !.page = Some(page),
        !.size = Some(size),
        !.sortBy = Some(f.sortBy),
        !.sortDirection = Some(f.sortDirection)]

\* a compiler that sends a range's upper bound whenever either bound is set
buildSearchRequestCoupled(f, page, size) ==
    [searchRequest(f, page, size) EXCEPT
        !.maxRating = IF f.minRating > 0 \/ f.maxRating < 10 THEN Some(f.maxRating) ELSE None,
        !.maxImdbRating = IF f.minImdbRating > 0 \/ f.maxImdbRating < 10
                            THEN Some(f.maxImdbRating) ELSE None,
        !.maxYear = IF f.minYear > 1990 \/ f.maxYear < 2025 THEN Some(f.maxYear) ELSE None,
        !.maxRuntime = IF f.minRuntime > 0 \/ f.maxRuntime < 300 THEN Some(f.maxRuntime) ELSE None]

\* a compiler that looks at the displayed results: it asks for the popular
\* movies while the list is empty
buildSearchRequestReadsResults(f, page, size) ==
    [searchRequest(f, page, size) EXCEPT
        !.popular = IF movies = <<>> THEN Some(TRUE) ELSE BoolOrUndefined(f.popular)]

\* buildSearchRequest(), the compiler used by the exports
buildSearchRequest(f, page, size) ==
    [EmptyRequest EXCEPT
        !.query = StrOrUndefined(f.searchQuery),
        !.overview = StrOrUndefined(f.overview),
        !.genres = IF Len(f.genres) > 0 THEN Some(f.genres) ELSE None,
        !.minRating = IF f.minRating > 0 THEN Some(f.minRating) ELSE None,
        !.maxRating = IF f.maxRating < 10 THEN Some(f.maxRating) ELSE None,
        !.minImdbRating = IF f.minImdbRating > 0 THEN Some(f.minImdbRating) ELSE None,
        !.maxImdbRating = IF f.maxImdbRating < 10 THEN Some(f.maxImdbRating) ELSE None,
        !.minVoteCount = IF f.minVoteCount > 0 THEN Some(f.minVoteCount) ELSE None,
        !.minYear = IF f.minYear > 1990 THEN Some(f.minYear) ELSE None,
        !.maxYear = IF f.maxYear < 2025 THEN Some(f.maxYear) ELSE None,
        !.minRuntime = IF f.minRuntime > 0 THEN Some(f.minRuntime) ELSE None,
        !.maxRuntime = IF f.maxRuntime < 300 THEN Some(f.maxRuntime) ELSE None,
        !.highlyRated = BoolOrUndefined(f.highlyRated),
        !.popular = BoolOrUndefined(f.popular),
        !.recentlyReleased = BoolOrUndefined(f.recentlyReleased),
        !.shortRuntime = BoolOrUndefined(f.shortRuntime),
        !.searchForeign = BoolOrUndefined(f.searchForeign),
        !.page = Some(page),
        !.size = Some(size),
        !.sortBy = Some(f.sortBy),
        !.sortDirection = Some(f.sortDirection)]

\* the request object literal of loadPopularMovies
popularRequest ==
    [EmptyRequest EXCEPT
        !.popular = Some(TRUE),
        !.page = Some(0),
        !.size = Some(20),
        !.sortBy = Some("popularity"),
        !.sortDirection = Some("desc")]

(***************************************************************************)
(* Inputs of the exploration: what the form and the servers may supply.    *)
(***************************************************************************)
GenreInputs == {"Action", "Drama"}

FieldInputs(k) ==
    CASE k \in {"searchQuery"} -> {"", "batman"}
      [] k \in {"overview"} -> {"", "hero"}
      [] k \in {"genres"} -> {<<>>, <<"Action">>, <<"Drama">>, <<"Action", "Drama">>,
                               <<"Drama", "Action">>}
      [] k \in {"minRating", "maxRating", "minImdbRating", "maxImdbRating"} -> {0, 5, 10}
      [] k \in {"minVoteCount"} -> {0, 100}
      [] k \in {"minYear", "maxYear"} -> {1990, 2000, 2025}
      [] k \in {"minRuntime", "maxRuntime"} -> {0, 120, 300}
      [] k \in {"highlyRated", "popular", "recentlyReleased", "shortRuntime",
                "searchForeign"} -> BOOLEAN
      [] k \in {"sortBy"} -> {"popularity", "rating"}
      [] k \in {"sortDirection"} -> {"desc", "asc"}

\* the edits the form makes while searches and watchlist calls are explored
PagerEdits == {<<"minYear", 2000>>}
PagerGenres == {"Action"}

\* the pages the Search Service may answer with
Responses ==
    {[movies |-> <<1, 2>>, totalPages |-> 2],
     [movies |-> <<2, 1>>, totalPages |-> 2],
     [movies |-> <<2>>, totalPages |-> 1],
     [movies |-> <<>>, totalPages |-> 0]}

ErrorMessages == {"Search failed", "Network error"}

\* the values of the page-size selector, as the digits of event.target.value
PageSizeInputs == {<<1, 0>>, <<5, 0>>}

\* parseInt of a string of decimal digits
RECURSIVE parseInt(_)
parseInt(digits) ==
    IF digits = <<>> THEN 0
    ELSE 10 * parseInt(SubSeq(digits, 1, Len(digits) - 1)) + digits[Len(digits)]

Range(s) == {s[i] : i \in DOMAIN s}

\* the operation or callback that ran last, with its numeric argument (0 if none)
\* and, for a callback, the value the server handed it (None if none)
OpOut(name, arg, out) == [op |-> name, arg |-> arg, out |-> out]

Op(name, arg) == OpOut(name, arg, None)

(***************************************************************************)
(* AuthService                                                             *)
(***************************************************************************)
\* AuthService.isAuthenticated(): hasToken(), i.e. a current user is set
AuthService_isAuthenticated == currentUserSubject # None

\* App.logout -> AuthService.logout
Logout ==
    /\ currentUserSubject' = None
    /\ isAuthenticatedSubject' = FALSE
    /\ lastOp' = Op("logout", 0)
    /\ UNCHANGED <<componentVars, serviceVars, initialized, navigated>>
    /\ UNCHANGED pageVars

\* everything outside LoginComponent, the session and the router
outsideLogin == <<componentVars, serviceVars, initialized, detail, detailCalls,
                  watchlistPage, watchlistCalls, upload, registerPage>>

\* route.snapshot.queryParams['returnUrl'] || '/search' on the route the
\* router last went to
ReturnUrl(route) ==
    IF Len(route) = 3 /\ route[2] = "returnUrl" /\ route[3] # ""
      THEN route[3] ELSE "/search"

\* message || fallback
OrElse(message, fallback) == IF message # "" THEN message ELSE fallback

\* LoginComponent.ngOnInit
LoginNgOnInit ==
    /\ ~loginPage.initialized
    /\ IF AuthService_isAuthenticated
         THEN navigated' = <<"/">>
         ELSE UNCHANGED navigated
    /\ loginPage' = [loginPage EXCEPT !.initialized = TRUE,
                                      !.returnUrl = ReturnUrl(navigated)]
    /\ lastOp' = Op("loginNgOnInit", 0)
    /\ UNCHANGED <<authVars, outsideLogin>>

\* LoginComponent.onSubmit; valid is !loginForm.invalid
LoginOnSubmit(valid) ==
    /\ loginPage.initialized
    /\ IF ~valid
         THEN loginPage' = [loginPage EXCEPT !.submitted = TRUE,
                                            !.errorMessage = "",
                                            !.successMessage = ""]
         ELSE /\ loginPage.logins < MaxPending
              /\ loginPage' = [loginPage EXCEPT !.submitted = TRUE,
                                                !.errorMessage = "",
                                                !.successMessage = "",
                                                !.isLoading = TRUE,
                                                !.logins = @ + 1]
    /\ lastOp' = Op("loginOnSubmit", 0)
    /\ UNCHANGED <<authVars, navigated, outsideLogin>>

\* the server accepted the credentials: the tap of AuthService.login (the
\* token stays in the cookie and getCurrentUserFromCookie() sets nothing),
\* then the next callback of onSubmit, which starts the redirect timer
LoginSuccess ==
    /\ loginPage.logins > 0
    /\ loginPage.timers < MaxTimers
    /\ isAuthenticatedSubject' = TRUE
    /\ currentUserSubject' = currentUserSubject
    /\ loginPage' = [loginPage EXCEPT
                       !.isLoading = FALSE,
                       !.successMessage = "Login successful! Redirecting...",
                       !.logins = @ - 1,
                       !.timers = @ + 1]
    /\ lastOp' = Op("loginSuccess", 0)
    /\ UNCHANGED <<navigated, outsideLogin>>

\* the server rejected the credentials with error.error?.message = message
\* ("" when it sent none): the catchError of AuthService.login, then the error
\* callback of onSubmit with the Error thrown
LoginError(message) ==
    /\ loginPage.logins > 0
    /\ isAuthenticatedSubject' = FALSE
    /\ currentUserSubject' = currentUserSubject
    /\ loginPage' = [loginPage EXCEPT
                       !.isLoading = FALSE,
                       !.errorMessage =
                          OrElse(OrElse(message, "Invalid credentials"),
                                 "Invalid email or password. Please try again."),
                       !.logins = @ - 1]
    /\ lastOp' = Op("loginError", 0)
    /\ UNCHANGED <<navigated, outsideLogin>>

\* the timer of onSubmit fires 1 second after the login:
\* router.navigate([returnUrl])
LoginRedirect ==
    /\ loginPage.timers > 0
    /\ loginPage' = [loginPage EXCEPT !.timers = @ - 1]
    /\ navigated' = <<loginPage.returnUrl>>
    /\ lastOp' = Op("loginRedirect", 0)
    /\ UNCHANGED <<authVars, outsideLogin>>

\* LoginComponent.goToRegister
GoToRegister ==
    /\ loginPage.initialized
    /\ navigated' = <<"/register">>
    /\ lastOp' = Op("goToRegister", 0)
    /\ UNCHANGED <<authVars, loginPage, outsideLogin>>

\* everything outside RegisterComponent and the router
outsideRegister == <<componentVars, authVars, serviceVars, initialized, detail,
                     detailCalls, watchlistPage, watchlistCalls, upload, loginPage>>

\* RegisterComponent.ngOnInit
RegisterNgOnInit ==
    /\ ~registerPage.initialized
    /\ IF AuthService_isAuthenticated
         THEN navigated' = <<"/">>
         ELSE UNCHANGED navigated
    /\ registerPage' = [registerPage EXCEPT !.initialized = TRUE]
    /\ lastOp' = Op("registerNgOnInit", 0)
    /\ UNCHANGED outsideRegister

\* RegisterComponent.onSubmit; valid is !registerForm.invalid
RegisterOnSubmit(valid) ==
    /\ registerPage.initialized
    /\ IF ~valid
         THEN registerPage' = [registerPage EXCEPT !.submitted = TRUE,
                                                  !.errorMessage = "",
                                                  !.successMessage = ""]
         ELSE /\ registerPage.registers < MaxPending
              /\ registerPage' = [registerPage EXCEPT !.submitted = TRUE,
                                                      !.errorMessage = "",
                                                      !.successMessage = "",
                                                      !.isLoading = TRUE,
                                                      !.registers = @ + 1]
    /\ lastOp' = Op("registerOnSubmit", 0)
    /\ UNCHANGED <<navigated, outsideRegister>>

\* the server created the account: the tap of AuthService.register
\* (storeTokens keeps nothing), then the next callback of onSubmit
RegisterSuccess ==
    /\ registerPage.registers > 0
    /\ registerPage.timers < MaxTimers
    /\ registerPage' = [registerPage EXCEPT
                          !.isLoading = FALSE,
                          !.successMessage =
                             "Registration successful! Redirecting to login...",
                          !.registers = @ - 1,
                          !.timers = @ + 1]
    /\ lastOp' = Op("registerSuccess", 0)
    /\ UNCHANGED <<navigated, outsideRegister>>

\* the server refused with error.error?.message = message: the catchError of
\* AuthService.register, then the error callback of onSubmit
RegisterError(message) ==
    /\ registerPage.registers > 0
    /\ registerPage' = [registerPage EXCEPT
                          !.isLoading = FALSE,
                          !.errorMessage =
                             OrElse(OrElse(message, "Registration failed"),
                                    "Registration failed. Please try again."),
                          !.registers = @ - 1]
    /\ lastOp' = Op("registerError", 0)
    /\ UNCHANGED <<navigated, outsideRegister>>

\* the timer of onSubmit fires 2 seconds after the registration
RegisterRedirect ==
    /\ registerPage.timers > 0
    /\ registerPage' = [registerPage EXCEPT !.timers = @ - 1]
    /\ navigated' = <<"/login">>
    /\ lastOp' = Op("registerRedirect", 0)
    /\ UNCHANGED outsideRegister

\* RegisterComponent.goToLogin
GoToLogin ==
    /\ registerPage.initialized
    /\ navigated' = <<"/login">>
    /\ lastOp' = Op("goToLogin", 0)
    /\ UNCHANGED <<registerPage, outsideRegister>>

\* the routes behind AuthGuard that the router may ask for
GuardedUrls == <<"/watchlist", "/movies/1">>

\* router.navigate(['/login'], { queryParams: { returnUrl: url } })
LoginRouteReturning(url) == <<"/login", "returnUrl", url>>

\* a guard that trusts the flag emitted on isAuthenticated$
CanActivateEmitted(i) ==
    /\ i \in DOMAIN GuardedUrls
    /\ IF isAuthenticatedSubject
         THEN /\ lastOp' = OpOut("canActivate", i, Some(TRUE))
              /\ UNCHANGED navigated
         ELSE /\ navigated' = LoginRouteReturning(GuardedUrls[i])
              /\ lastOp' = OpOut("canActivate", i, Some(FALSE))
    /\ UNCHANGED <<componentVars, authVars, serviceVars, initialized, pageVars>>

\* AuthGuard.canActivate(route, state) with state.url = GuardedUrls[i]
CanActivate(i) ==
    /\ i \in DOMAIN GuardedUrls
    /\ IF AuthService_isAuthenticated
         THEN /\ lastOp' = OpOut("canActivate", i, Some(TRUE))
              /\ UNCHANGED navigated
         ELSE /\ navigated' = LoginRouteReturning(GuardedUrls[i])
              /\ lastOp' = OpOut("canActivate", i, Some(FALSE))
    /\ UNCHANGED <<componentVars, authVars, serviceVars, initialized, pageVars>>

(***************************************************************************)
(* MovieSearchComponent                                                    *)
(***************************************************************************)
\* the page is displayed and takes user events
Mounted == initialized /\ navigated = None

\* movieService.searchMovies(req).subscribe(...): one more request in flight
PendingSearches == stalePending + (IF latestPending THEN 1 ELSE 0)

IssueSearch(req) ==
    /\ PendingSearches < MaxPending
    /\ stalePending' = PendingSearches
    /\ latestPending' = TRUE
    /\ lastRequest' = Some(req)

\* loadPopularMovies(): errorMessage and currentPage are not written
loadPopularMovies ==
    /\ isLoading' = TRUE
    /\ IssueSearch(popularRequest)

\* a search that keeps the page it was entered with
searchMoviesKeepsPage(entryPage, size) ==
    LET page == entryPage IN
    /\ isLoading' = TRUE
    /\ errorMessage' = ""
    /\ currentPage' = page
    /\ IssueSearch(searchRequest(filter, page, size))

\* the body of searchMovies(), entered with this.currentPage = entryPage and
\* this.pageSize = size; it overwrites currentPage before it reads it
searchMovies(entryPage, size) ==
    LET page == 0 IN
    /\ isLoading' = TRUE
    /\ errorMessage' = ""
    /\ currentPage' = page
    /\ IssueSearch(searchRequest(filter, page, size))

\* an activation that runs the filtered search instead of the popular-movies load
NgOnInitSearches ==
    /\ ~initialized
    /\ initialized' = TRUE
    /\ isAuthenticated' = AuthService_isAuthenticated
    /\ searchMovies(currentPage, pageSize)
    /\ lastOp' = Op("ngOnInit", 0)
    /\ UNCHANGED <<filter, pageSize, totalPages, movies,
                   searchResponse, movieWatchlistStatus, isAddingToWatchlist,
                   isExporting, authVars, pendingLookups, pendingAdds,
                   exportRequest, pendingExports, navigated>>
    /\ UNCHANGED pageVars

NgOnInit ==
    /\ ~initialized
    /\ initialized' = TRUE
    /\ isAuthenticated' = AuthService_isAuthenticated
    /\ loadPopularMovies
    /\ lastOp' = Op("ngOnInit", 0)
    /\ UNCHANGED <<filter, currentPage, pageSize, totalPages, errorMessage, movies,
                   searchResponse, movieWatchlistStatus, isAddingToWatchlist,
                   isExporting, authVars, pendingLookups, pendingAdds,
                   exportRequest, pendingExports, navigated>>
    /\ UNCHANGED pageVars

\* a search that empties the list while it waits for the response
SearchMoviesFlash ==
    /\ Mounted
    /\ searchMovies(currentPage, pageSize)
    /\ movies' = <<>>
    /\ lastOp' = Op("searchMovies", 0)
    /\ UNCHANGED <<filter, pageSize, totalPages, searchResponse,
                   movieWatchlistStatus, isAddingToWatchlist, isAuthenticated,
                   isExporting, authVars, pendingLookups, pendingAdds,
                   exportRequest, pendingExports, initialized, navigated>>
    /\ UNCHANGED pageVars

SearchMovies ==
    /\ Mounted
    /\ searchMovies(currentPage, pageSize)
    /\ lastOp' = Op("searchMovies", 0)
    /\ UNCHANGED <<filter, pageSize, totalPages, movies, searchResponse,
                   movieWatchlistStatus, isAddingToWatchlist, isAuthenticated,
                   isExporting, authVars, pendingLookups, pendingAdds,
                   exportRequest, pendingExports, initialized, navigated>>
    /\ UNCHANGED pageVars

\* a form control bound to filter field k is set to v
SetFilter(k, v) ==
    /\ Mounted
    /\ v # filter[k]
    /\ filter' = [filter EXCEPT ![k] = v]
    /\ lastOp' = Op("setFilter", 0)
    /\ UNCHANGED <<currentPage, pageSize, totalPages, isLoading, errorMessage, movies,
                   searchResponse, movieWatchlistStatus, isAddingToWatchlist,
                   isAuthenticated, isExporting, authVars, serviceVars, initialized,
                   navigated>>
    /\ UNCHANGED pageVars

\* genres.indexOf(genre), 0 when absent (JavaScript: -1)
IndexOf(s, x) == IF x \in Range(s) THEN CHOOSE i \in DOMAIN s : s[i] = x ELSE 0

\* genres.splice(index, 1)
Splice(s, i) == SubSeq(s, 1, i - 1) \o SubSeq(s, i + 1, Len(s))

ToggleGenre(g) ==
    /\ Mounted
    /\ LET index == IndexOf(filter.genres, g) IN
         filter' = [filter EXCEPT !.genres =
                       IF index > 0 THEN Splice(@, index) ELSE Append(@, g)]
    /\ lastOp' = Op("toggleGenre", 0)
    /\ UNCHANGED <<currentPage, pageSize, totalPages, isLoading, errorMessage, movies,
                   searchResponse, movieWatchlistStatus, isAddingToWatchlist,
                   isAuthenticated, isExporting, authVars, serviceVars, initialized,
                   navigated>>
    /\ UNCHANGED pageVars

ClearFilters ==
    /\ Mounted
    /\ filter' = DefaultFilter
    /\ loadPopularMovies
    /\ lastOp' = Op("clearFilters", 0)
    /\ UNCHANGED <<currentPage, pageSize, totalPages, errorMessage, movies,
                   searchResponse, movieWatchlistStatus, isAddingToWatchlist,
                   isAuthenticated, isExporting, authVars, pendingLookups, pendingAdds, exportRequest, pendingExports, initialized, navigated>>
    /\ UNCHANGED pageVars

PrevPage ==
    /\ Mounted
    /\ lastOp' = Op("prevPage", 0)
    /\ IF currentPage > 0
         THEN /\ searchMovies(currentPage - 1, pageSize)
              /\ UNCHANGED <<filter, pageSize, totalPages, movies, searchResponse>>
         ELSE UNCHANGED <<filter, currentPage, pageSize, totalPages, isLoading,
                          errorMessage, movies, searchResponse, searchVars>>
    /\ UNCHANGED <<movieWatchlistStatus, isAddingToWatchlist, isAuthenticated,
                   isExporting, authVars, pendingLookups, pendingAdds,
                   exportRequest, pendingExports, initialized, navigated>>
    /\ UNCHANGED pageVars

\* a pager that takes the page count for the last page index
NextPageOffByOne ==
    /\ Mounted
    /\ lastOp' = Op("nextPage", 0)
    /\ IF currentPage < totalPages
         THEN /\ searchMovies(currentPage + 1, pageSize)
              /\ UNCHANGED <<filter, pageSize, totalPages, movies, searchResponse>>
         ELSE UNCHANGED <<filter, currentPage, pageSize, totalPages, isLoading,
                          errorMessage, movies, searchResponse, searchVars>>
    /\ UNCHANGED <<movieWatchlistStatus, isAddingToWatchlist, isAuthenticated,
                   isExporting, authVars, pendingLookups, pendingAdds,
                   exportRequest, pendingExports, initialized, navigated>>
    /\ UNCHANGED pageVars

NextPage ==
    /\ Mounted
    /\ lastOp' = Op("nextPage", 0)
    /\ IF currentPage < totalPages - 1
         THEN /\ searchMovies(currentPage + 1, pageSize)
              /\ UNCHANGED <<filter, pageSize, totalPages, movies, searchResponse>>
         ELSE UNCHANGED <<filter, currentPage, pageSize, totalPages, isLoading,
                          errorMessage, movies, searchResponse, searchVars>>
    /\ UNCHANGED <<movieWatchlistStatus, isAddingToWatchlist, isAuthenticated,
                   isExporting, authVars, pendingLookups, pendingAdds,
                   exportRequest, pendingExports, initialized, navigated>>
    /\ UNCHANGED pageVars

\* a page-size change that searches before it stores the new size
ChangePageSizeStale(value) ==
    /\ Mounted
    /\ pageSize' = parseInt(value)
    /\ searchMovies(0, pageSize)
    /\ lastOp' = Op("changePageSize", parseInt(value))
    /\ UNCHANGED <<filter, totalPages, movies, searchResponse, movieWatchlistStatus,
                   isAddingToWatchlist, isAuthenticated, isExporting, authVars,
                   pendingLookups, pendingAdds, exportRequest, pendingExports,
                   initialized, navigated>>
    /\ UNCHANGED pageVars

ChangePageSize(value) ==
    /\ Mounted
    /\ pageSize' = parseInt(value)
    /\ searchMovies(0, parseInt(value))
    /\ lastOp' = Op("changePageSize", parseInt(value))
    /\ UNCHANGED <<filter, totalPages, movies, searchResponse, movieWatchlistStatus,
                   isAddingToWatchlist, isAuthenticated, isExporting, authVars,
                   pendingLookups, pendingAdds, exportRequest, pendingExports, initialized,
                   navigated>>
    /\ UNCHANGED pageVars

\* number of entries of s equal to x
Count(s, x) == Cardinality({i \in DOMAIN s : s[i] = x})

\* checkWatchlistStatusForMovies(), run with this.movies = ms: one isInWatchlist
\* call per displayed movie
checkWatchlistStatusForMovies(ms) ==
    IF ~isAuthenticated \/ Len(ms) = 0
      THEN pendingLookups' = pendingLookups
      ELSE pendingLookups' = [m \in MovieIds |-> pendingLookups[m] + Count(ms, m)]

\* one search in flight resolves: the most recently issued one (latest) or an
\* earlier one; the server answers requests in any order
Resolve(latest) ==
    IF latest
      THEN /\ latestPending
           /\ latestPending' = FALSE
           /\ UNCHANGED <<stalePending, lastRequest>>
      ELSE /\ stalePending > 0
           /\ stalePending' = stalePending - 1
           /\ UNCHANGED <<latestPending, lastRequest>>

\* the lookups in flight stay within the bound
LookupsBounded(ms) == \A m \in MovieIds : pendingLookups[m] + Count(ms, m) <= MaxPendingLookups

\* a success handler that appends the new page to the displayed list
HandleSearchSuccessMerges(latest, response) ==
    /\ Resolve(latest)
    /\ isAuthenticated => LookupsBounded(response.movies)
    /\ searchResponse' = Some(response)
    /\ movies' = movies \o response.movies
    /\ totalPages' = response.totalPages
    /\ isLoading' = FALSE
    /\ checkWatchlistStatusForMovies(response.movies)
    /\ lastOp' = OpOut("handleSearchSuccess", 0, Some(response))
    /\ UNCHANGED <<filter, currentPage, pageSize, errorMessage, movieWatchlistStatus,
                   isAddingToWatchlist, isAuthenticated, isExporting, authVars,
                   pendingAdds, exportRequest, pendingExports,
                   initialized, navigated>>
    /\ UNCHANGED pageVars

\* a success handler that drops the cached entry of each movie it looks up again
HandleSearchSuccessDropsEntries(latest, response) ==
    /\ Resolve(latest)
    /\ isAuthenticated => LookupsBounded(response.movies)
    /\ searchResponse' = Some(response)
    /\ movies' = response.movies
    /\ totalPages' = response.totalPages
    /\ isLoading' = FALSE
    /\ checkWatchlistStatusForMovies(response.movies)
    /\ movieWatchlistStatus' = [m \in MovieIds |->
          IF m \in Range(response.movies) THEN None ELSE movieWatchlistStatus[m]]
    /\ lastOp' = OpOut("handleSearchSuccess", 0, Some(response))
    /\ UNCHANGED <<filter, currentPage, pageSize, errorMessage,
                   isAddingToWatchlist, isAuthenticated, isExporting, authVars,
                   pendingAdds, exportRequest, pendingExports,
                   initialized, navigated>>
    /\ UNCHANGED pageVars

\* the subscription's next callback of a search, with the server's page
HandleSearchSuccess(latest, response) ==
    /\ Resolve(latest)
    /\ isAuthenticated => LookupsBounded(response.movies)
    /\ searchResponse' = Some(response)
    /\ movies' = response.movies
    /\ totalPages' = response.totalPages
    /\ isLoading' = FALSE
    /\ checkWatchlistStatusForMovies(response.movies)
    /\ lastOp' = OpOut("handleSearchSuccess", 0, Some(response))
    /\ UNCHANGED <<filter, currentPage, pageSize, errorMessage, movieWatchlistStatus,
                   isAddingToWatchlist, isAuthenticated, isExporting, authVars,
                   pendingAdds, exportRequest, pendingExports,
                   initialized, navigated>>
    /\ UNCHANGED pageVars

\* a failure handler that also forgets the page count
HandleSearchErrorResets(latest, message) ==
    /\ Resolve(latest)
    /\ errorMessage' = message
    /\ isLoading' = FALSE
    /\ movies' = <<>>
    /\ totalPages' = 0
    /\ lastOp' = OpOut("handleSearchError", 0, Some(message))
    /\ UNCHANGED <<filter, currentPage, pageSize, searchResponse,
                   movieWatchlistStatus, isAddingToWatchlist, isAuthenticated,
                   isExporting, authVars, pendingLookups, pendingAdds,
                   exportRequest, pendingExports, initialized, navigated>>
    /\ UNCHANGED pageVars

\* the subscription's error callback of a search
HandleSearchError(latest, message) ==
    /\ Resolve(latest)
    /\ errorMessage' = message
    /\ isLoading' = FALSE
    /\ movies' = <<>>
    /\ lastOp' = OpOut("handleSearchError", 0, Some(message))
    /\ UNCHANGED <<filter, currentPage, pageSize, totalPages, searchResponse,
                   movieWatchlistStatus, isAddingToWatchlist, isAuthenticated,
                   isExporting, authVars, pendingLookups, pendingAdds,
                   exportRequest, pendingExports, initialized, navigated>>
    /\ UNCHANGED pageVars

isMovieInWatchlist(movieId) == movieWatchlistStatus[movieId] = Some(TRUE)

\* router.navigate(['/login'])
LoginRoute == <<"/login">>

\* viewMovieDetail: router.navigate(['/movies', movieId])
viewMovieDetail(movieId) == navigated' = <<"/movies", movieId>>

\* a quick add that does not look at the cache
QuickAddToWatchlistAlwaysAdds(movieId) ==
    /\ Mounted
    /\ movieId \in Range(movies)
    /\ lastOp' = Op("quickAddToWatchlist", movieId)
    /\ IF ~isAuthenticated
         THEN /\ navigated' = LoginRoute
              /\ UNCHANGED <<isAddingToWatchlist, pendingAdds>>
         ELSE /\ pendingAdds[movieId] < MaxPendingAdds
              /\ isAddingToWatchlist' = [isAddingToWatchlist EXCEPT ![movieId] = Some(TRUE)]
              /\ pendingAdds' = [pendingAdds EXCEPT ![movieId] = @ + 1]
              /\ UNCHANGED navigated
    /\ UNCHANGED <<filter, currentPage, pageSize, totalPages, isLoading, errorMessage,
                   movies, searchResponse, movieWatchlistStatus, isAuthenticated,
                   isExporting, authVars, searchVars,
                   pendingLookups, exportRequest, pendingExports, initialized>>
    /\ UNCHANGED pageVars

\* the add button of the card of a displayed movie
QuickAddToWatchlist(movieId) ==
    /\ Mounted
    /\ movieId \in Range(movies)
    /\ lastOp' = Op("quickAddToWatchlist", movieId)
    /\ IF ~isAuthenticated
         THEN /\ navigated' = LoginRoute
              /\ UNCHANGED <<isAddingToWatchlist, pendingAdds>>
         ELSE IF movieWatchlistStatus[movieId] = Some(TRUE)
           THEN /\ viewMovieDetail(movieId)
                /\ UNCHANGED <<isAddingToWatchlist, pendingAdds>>
           ELSE /\ pendingAdds[movieId] < MaxPendingAdds
                /\ isAddingToWatchlist' = [isAddingToWatchlist EXCEPT ![movieId] = Some(TRUE)]
                /\ pendingAdds' = [pendingAdds EXCEPT ![movieId] = @ + 1]
                /\ UNCHANGED navigated
    /\ UNCHANGED <<filter, currentPage, pageSize, totalPages, isLoading, errorMessage,
                   movies, searchResponse, movieWatchlistStatus, isAuthenticated,
                   isExporting, authVars, searchVars,
                   pendingLookups, exportRequest, pendingExports, initialized>>
    /\ UNCHANGED pageVars

\* an add completion that leaves the cache alone
AddSuccessForgets(movieId) ==
    /\ pendingAdds[movieId] > 0
    /\ pendingAdds' = [pendingAdds EXCEPT ![movieId] = @ - 1]
    /\ isAddingToWatchlist' = [isAddingToWatchlist EXCEPT ![movieId] = Some(FALSE)]
    /\ lastOp' = Op("addSuccess", movieId)
    /\ UNCHANGED <<filter, currentPage, pageSize, totalPages, isLoading, errorMessage,
                   movies, searchResponse, movieWatchlistStatus, isAuthenticated,
                   isExporting, authVars, searchVars, pendingLookups,
                   exportRequest, pendingExports, initialized, navigated>>
    /\ UNCHANGED pageVars

\* next callback of an addToWatchlist call for movieId
AddSuccess(movieId) ==
    /\ pendingAdds[movieId] > 0
    /\ pendingAdds' = [pendingAdds EXCEPT ![movieId] = @ - 1]
    /\ movieWatchlistStatus' = [movieWatchlistStatus EXCEPT ![movieId] = Some(TRUE)]
    /\ isAddingToWatchlist' = [isAddingToWatchlist EXCEPT ![movieId] = Some(FALSE)]
    /\ lastOp' = Op("addSuccess", movieId)
    /\ UNCHANGED <<filter, currentPage, pageSize, totalPages, isLoading, errorMessage,
                   movies, searchResponse, isAuthenticated, isExporting, authVars,
                   searchVars, pendingLookups,
                   exportRequest, pendingExports, initialized, navigated>>
    /\ UNCHANGED pageVars

\* a failed add that is reported like a failed search
AddErrorClearsResults(movieId) ==
    /\ pendingAdds[movieId] > 0
    /\ pendingAdds' = [pendingAdds EXCEPT ![movieId] = @ - 1]
    /\ isAddingToWatchlist' = [isAddingToWatchlist EXCEPT ![movieId] = Some(FALSE)]
    /\ errorMessage' = "Failed to add to watchlist. Please try again."
    /\ movies' = <<>>
    /\ lastOp' = Op("addError", movieId)
    /\ UNCHANGED <<filter, currentPage, pageSize, totalPages, isLoading,
                   searchResponse, movieWatchlistStatus, isAuthenticated,
                   isExporting, authVars, searchVars,
                   pendingLookups, exportRequest, pendingExports, initialized,
                   navigated>>
    /\ UNCHANGED pageVars

\* error callback of an addToWatchlist call for movieId
AddError(movieId) ==
    /\ pendingAdds[movieId] > 0
    /\ pendingAdds' = [pendingAdds EXCEPT ![movieId] = @ - 1]
    /\ isAddingToWatchlist' = [isAddingToWatchlist EXCEPT ![movieId] = Some(FALSE)]
    /\ lastOp' = Op("addError", movieId)
    /\ UNCHANGED <<filter, currentPage, pageSize, totalPages, isLoading, errorMessage,
                   movies, searchResponse, movieWatchlistStatus, isAuthenticated,
                   isExporting, authVars, searchVars,
                   pendingLookups, exportRequest, pendingExports, initialized,
                   navigated>>
    /\ UNCHANGED pageVars

\* a completion that rebuilds the cache with its own entry only
lookupNextRebuild(status, movieId, inWatchlist) ==
    [m \in DOMAIN status |-> IF m = movieId THEN Some(inWatchlist) ELSE None]

\* this.movieWatchlistStatus[movie.id] = inWatchlist
lookupNext(status, movieId, inWatchlist) == [status EXCEPT ![movieId] = Some(inWatchlist)]

\* next callback of an isInWatchlist call for movieId
LookupSuccess(movieId, inWatchlist) ==
    /\ pendingLookups[movieId] > 0
    /\ pendingLookups' = [pendingLookups EXCEPT ![movieId] = @ - 1]
    /\ movieWatchlistStatus' = lookupNext(movieWatchlistStatus, movieId, inWatchlist)
    /\ lastOp' = OpOut("lookupSuccess", movieId, Some(inWatchlist))
    /\ UNCHANGED <<filter, currentPage, pageSize, totalPages, isLoading, errorMessage,
                   movies, searchResponse, isAddingToWatchlist, isAuthenticated,
                   isExporting, authVars, searchVars,
                   pendingAdds, exportRequest, pendingExports, initialized,
                   navigated>>
    /\ UNCHANGED pageVars

\* a failed lookup that records the movie as not in the watchlist
LookupErrorCaches(movieId) ==
    /\ pendingLookups[movieId] > 0
    /\ pendingLookups' = [pendingLookups EXCEPT ![movieId] = @ - 1]
    /\ movieWatchlistStatus' = [movieWatchlistStatus EXCEPT ![movieId] = Some(FALSE)]
    /\ lastOp' = Op("lookupError", movieId)
    /\ UNCHANGED <<filter, currentPage, pageSize, totalPages, isLoading, errorMessage,
                   movies, searchResponse, isAddingToWatchlist, isAuthenticated,
                   isExporting, authVars, searchVars,
                   pendingAdds, exportRequest, pendingExports, initialized,
                   navigated>>
    /\ UNCHANGED pageVars

\* error callback of an isInWatchlist call for movieId
LookupError(movieId) ==
    /\ pendingLookups[movieId] > 0
    /\ pendingLookups' = [pendingLookups EXCEPT ![movieId] = @ - 1]
    /\ lastOp' = Op("lookupError", movieId)
    /\ UNCHANGED <<componentVars, authVars, searchVars,
                   pendingAdds, exportRequest, pendingExports, initialized,
                   navigated>>
    /\ UNCHANGED pageVars

\* exportCurrentPage() and exportAllResults(): both compile the request
Export(kind) ==
    /\ Mounted
    /\ pendingExports < MaxExports
    /\ isExporting' = TRUE
    /\ exportRequest' = Some(buildSearchRequest(filter, currentPage, pageSize))
    /\ pendingExports' = pendingExports + 1
    /\ lastOp' = Op(kind, 0)
    /\ UNCHANGED <<filter, currentPage, pageSize, totalPages, isLoading, errorMessage,
                   movies, searchResponse, movieWatchlistStatus, isAddingToWatchlist,
                   isAuthenticated, authVars, searchVars,
                   pendingLookups, pendingAdds, initialized, navigated>>
    /\ UNCHANGED pageVars

ExportCurrentPage == Export("exportCurrentPage")

ExportAllResults == Export("exportAllResults")

\* next or error callback of an export
ExportDone ==
    /\ pendingExports > 0
    /\ pendingExports' = pendingExports - 1
    /\ isExporting' = FALSE
    /\ lastOp' = Op("exportDone", 0)
    /\ UNCHANGED <<filter, currentPage, pageSize, totalPages, isLoading, errorMessage,
                   movies, searchResponse, movieWatchlistStatus, isAddingToWatchlist,
                   isAuthenticated, authVars, searchVars,
                   pendingLookups, pendingAdds, exportRequest, initialized,
                   navigated>>
    /\ UNCHANGED pageVars

\* everything but the search page's navigation target
outsideNavigation == <<componentVars, authVars, serviceVars, initialized, pageVars>>

\* MovieSearchComponent.viewMovieDetail: a displayed movie is opened
ViewMovieDetail(movieId) ==
    /\ Mounted
    /\ movieId \in Range(movies)
    /\ viewMovieDetail(movieId)
    /\ lastOp' = Op("viewMovieDetail", movieId)
    /\ UNCHANGED outsideNavigation

\* everything but the search fields that searchMovies() writes and the import
outsideImport == <<filter, pageSize, totalPages, movies, searchResponse,
                   movieWatchlistStatus, isAddingToWatchlist, isAuthenticated,
                   isExporting, authVars, pendingLookups, pendingAdds,
                   exportRequest, pendingExports, initialized, navigated,
                   detail, detailCalls, watchlistPage, watchlistCalls, loginPage,
                   registerPage>>

searchFields == <<currentPage, isLoading, errorMessage, searchVars>>

\* file.name.endsWith('.csv') for the files the dialog offers
IsCsv(file) == file = "movies.csv"

\* MovieSearchComponent.onFileSelected; file is None when the dialog is
\* closed without a file
OnFileSelected(file) ==
    /\ Mounted
    /\ upload' = IF file = None THEN upload
                 ELSE IF ~IsCsv(file[1])
                   THEN [upload EXCEPT !.importError = "Please select a CSV file",
                                       !.selectedFile = None]
                   ELSE [upload EXCEPT !.selectedFile = file,
                                       !.importError = "",
                                       !.importResult = None]
    /\ lastOp' = Op("onFileSelected", 0)
    /\ UNCHANGED <<searchFields, outsideImport>>

\* MovieSearchComponent.uploadCsvFile
UploadCsvFile ==
    /\ Mounted
    /\ IF upload.selectedFile = None
         THEN upload' = [upload EXCEPT !.importError = "Please select a file first"]
         ELSE /\ upload.imports < MaxImports
              /\ upload' = [upload EXCEPT !.isImporting = TRUE,
                                          !.importError = "",
                                          !.importResult = None,
                                          !.imports = @ + 1]
    /\ lastOp' = Op("uploadCsvFile", 0)
    /\ UNCHANGED <<searchFields, outsideImport>>

\* the next callback of importMovies: the list is refreshed 2 seconds later
ImportSuccess ==
    /\ upload.imports > 0
    /\ upload.timers < MaxTimers
    /\ upload' = [upload EXCEPT !.isImporting = FALSE,
                                !.importResult = Some("imported"),
                                !.selectedFile = None,
                                !.imports = @ - 1,
                                !.timers = @ + 1]
    /\ lastOp' = Op("importSuccess", 0)
    /\ UNCHANGED <<searchFields, outsideImport>>

\* the error callback of importMovies: error.message || 'Import failed'
ImportError(message) ==
    /\ upload.imports > 0
    /\ upload' = [upload EXCEPT !.isImporting = FALSE,
                                !.importError = IF message # "" THEN message
                                                ELSE "Import failed",
                                !.imports = @ - 1]
    /\ lastOp' = Op("importError", 0)
    /\ UNCHANGED <<searchFields, outsideImport>>

\* the timer of uploadCsvFile fires: this.searchMovies(), whether or not the
\* page is still displayed
UploadRefresh ==
    /\ upload.timers > 0
    /\ upload' = [upload EXCEPT !.timers = @ - 1]
    /\ searchMovies(currentPage, pageSize)
    /\ lastOp' = Op("searchMovies", 0)
    /\ UNCHANGED outsideImport

(***************************************************************************)
(* MovieDetailComponent and WatchlistComponent: fields after construction  *)
(***************************************************************************)
\* the statuses the movie page sets, and the identifiers of watchlist entries
DetailStatuses == {"WANT_TO_WATCH", "WATCHED"}
WatchlistEntryIds == {10}

\* the ids of the reviews of the displayed movie
ReviewIds == {1, 2}

\* a text of the review form, as its sequence of characters
EmptyText == <<>>

EmptyReviewForm == [rating |-> 0, title |-> EmptyText, content |-> EmptyText]

\* MovieDetailComponent: the fields the reviews section reads and writes
DetailInit ==
    [initialized |-> FALSE,
     movie |-> None,
     isLoading |-> TRUE,
     errorMessage |-> "",
     isInWatchlist |-> FALSE,
     currentWatchlistId |-> None,
     currentStatus |-> None,
     isAddingToWatchlist |-> FALSE,
     isAuthenticated |-> FALSE,
     showStatusDropdown |-> FALSE,
     reviews |-> <<>>,
     isLoadingReviews |-> FALSE,
     currentReviewPage |-> 0,
     totalPages |-> 0,
     totalReviews |-> 0,
     showReviewForm |-> FALSE,
     editingReview |-> None,
     isSubmitting |-> FALSE,
     reviewForm |-> EmptyReviewForm]

\* no request of MovieDetailComponent is in flight; a like or unlike call is
\* live while the review object it captured is still in this.reviews
DetailCallsInit ==
    [movieLoads |-> 0, loads |-> 0, submits |-> 0, deletes |-> 0,
     likes |-> [r \in ReviewIds |-> 0],
     unlikes |-> [r \in ReviewIds |-> 0],
     detached |-> 0,
     statusChecks |-> 0, entryLoads |-> 0,
     adds |-> [st \in DetailStatuses |-> 0],
     statusUpdates |-> [st \in DetailStatuses |-> 0],
     removes |-> 0]

\* the ids of the watchlist items
ItemIds == {1, 2}

\* WatchlistComponent: the list, the filter, the pagination fields and the keys
\* of editingNotes
WatchlistPageInit ==
    [initialized |-> FALSE,
     watchlistItems |-> <<>>,
     selectedStatus |-> "ALL",
     currentPage |-> 0,
     totalPages |-> 0,
     totalResults |-> 0,
     isLoading |-> FALSE,
     errorMessage |-> "",
     editingNotes |-> {}]

\* no request of WatchlistComponent is in flight; lastList is the status and
\* the page of the most recently issued list request
WatchlistCallsInit ==
    [lists |-> 0, lastList |-> None, stats |-> 0, updates |-> 0,
     removes |-> [i \in ItemIds |-> 0],
     privacy |-> 0,
     notes |-> [i \in ItemIds |-> 0]]

\* MovieSearchComponent: no file selected, no import in flight, no refresh
\* timer running
UploadInit ==
    [selectedFile |-> None,
     isImporting |-> FALSE,
     importResult |-> None,
     importError |-> "",
     imports |-> 0,
     timers |-> 0]

\* LoginComponent before ngOnInit: no login in flight, no redirect timer
LoginPageInit ==
    [initialized |-> FALSE,
     submitted |-> FALSE,
     isLoading |-> FALSE,
     errorMessage |-> "",
     successMessage |-> "",
     returnUrl |-> "",
     logins |-> 0,
     timers |-> 0]

\* RegisterComponent before ngOnInit
RegisterPageInit ==
    [initialized |-> FALSE,
     submitted |-> FALSE,
     isLoading |-> FALSE,
     errorMessage |-> "",
     successMessage |-> "",
     registers |-> 0,
     timers |-> 0]

InitPages ==
    /\ detail = DetailInit
    /\ detailCalls = DetailCallsInit
    /\ watchlistPage = WatchlistPageInit
    /\ watchlistCalls = WatchlistCallsInit
    /\ upload = UploadInit
    /\ loginPage = LoginPageInit
    /\ registerPage = RegisterPageInit

(***************************************************************************)
(* ReviewService and MovieDetailComponent                                  *)
(***************************************************************************)
\* everything outside MovieDetailComponent and the session
outsideDetailPage == <<componentVars, serviceVars, initialized, watchlistPage,
                       watchlistCalls, upload, loginPage, registerPage>>
outsideDetail == <<outsideDetailPage, navigated>>

\* the movie of the route /movies/:id
RouteMovie == 1

\* a review as the server sends it
Review(id, liked, likes) ==
    [id |-> id, rating |-> 4, title |-> <<"a">>, content |-> <<"a", " ", "a">>,
     isLiked |-> liked, likesCount |-> likes]

\* the body of a ReviewListResponse
ReviewList(reviews, page, pages, results) ==
    [reviews |-> reviews, currentPage |-> page, totalPages |-> pages,
     totalResults |-> results]

\* the empty page { reviews: [], currentPage: 0, totalPages: 0, totalResults: 0 }
EmptyReviewList == ReviewList(<<>>, 0, 0, 0)

\* what HttpClient answers a request with: a body, or a failure with a status
HttpOk(body) == [ok |-> TRUE, body |-> body, status |-> 200]
HttpFailure(status) == [ok |-> FALSE, body |-> EmptyReviewList, status |-> status]

\* what an Observable delivers to its subscriber
Delivered(kind, value) == [kind |-> kind, value |-> value]

\* a service that substitutes the empty page only when there are no reviews
getMovieReviewsRethrows(http) ==
    IF http.ok THEN Delivered("next", http.body)
    ELSE IF http.status = 404 \/ http.status = 204 \/ http.status = 0
      THEN Delivered("next", EmptyReviewList)
      ELSE Delivered("error", EmptyReviewList)

\* ReviewService.getMovieReviews: tap, then catchError
getMovieReviews(http) ==
    IF http.ok THEN Delivered("next", http.body)
    ELSE IF http.status = 404 \/ http.status = 204 \/ http.status = 0
      THEN Delivered("next", EmptyReviewList)
      ELSE Delivered("next", EmptyReviewList)

\* String.prototype.trim on a text whose only whitespace character is " "
RECURSIVE trimStart(_)
trimStart(t) == IF t # <<>> /\ Head(t) = " " THEN trimStart(Tail(t)) ELSE t

RECURSIVE trimEnd(_)
trimEnd(t) ==
    IF t # <<>> /\ t[Len(t)] = " " THEN trimEnd(SubSeq(t, 1, Len(t) - 1)) ELSE t

trim(t) == trimEnd(trimStart(t))

\* a validity check that does not trim
isReviewValidUntrimmed(form) ==
    form.rating > 0 /\ Len(form.title) > 0 /\ Len(form.content) > 0

isReviewValid(form) ==
    form.rating > 0 /\ Len(trim(form.title)) > 0 /\ Len(trim(form.content)) > 0

\* the like and unlike calls in flight for live review objects
LiveCalls(calls) ==
    LET RECURSIVE Sum(_, _)
        Sum(f, S) == IF S = {} THEN 0
                     ELSE LET r == CHOOSE x \in S : TRUE IN f[r] + Sum(f, S \ {r})
    IN Sum(calls.likes, ReviewIds) + Sum(calls.unlikes, ReviewIds)

\* loadReviews(movieId): one more getMovieReviews call in flight
loadReviews(d, calls) ==
    /\ calls.loads < MaxPending
    /\ detail' = [d EXCEPT !.isLoadingReviews = TRUE]
    /\ detailCalls' = [calls EXCEPT !.loads = @ + 1]

\* MovieDetailComponent.ngOnInit with a movie id in the route
DetailNgOnInit ==
    /\ ~detail.initialized
    /\ loadReviews([detail EXCEPT !.initialized = TRUE,
                                  !.isAuthenticated = AuthService_isAuthenticated,
                                  !.isLoading = TRUE],
                   [detailCalls EXCEPT
                      !.movieLoads = @ + 1,
                      !.statusChecks = IF AuthService_isAuthenticated THEN @ + 1 ELSE @])
    /\ lastOp' = Op("detailNgOnInit", 0)
    /\ UNCHANGED <<outsideDetail, authVars>>

\* the callbacks of loadMovieDetails
MovieLoaded(ok) ==
    /\ detailCalls.movieLoads > 0
    /\ detailCalls' = [detailCalls EXCEPT !.movieLoads = @ - 1]
    /\ detail' = IF ok
                   THEN [detail EXCEPT !.movie = Some(RouteMovie), !.isLoading = FALSE]
                   ELSE [detail EXCEPT !.errorMessage = "Failed to load movie details",
                                       !.isLoading = FALSE]
    /\ lastOp' = Op("movieLoaded", 0)
    /\ UNCHANGED <<outsideDetail, authVars>>

\* the next and error callbacks of loadReviews, applied to what
\* getMovieReviews delivers for the HTTP outcome; the review objects of the
\* page shown before are replaced, so the like and unlike calls in flight keep
\* objects that the page no longer shows
ReviewsLoaded(http) ==
    LET n == getMovieReviews(http) IN
    /\ detailCalls.loads > 0
    /\ detail' = IF n.kind = "next"
                   THEN [detail EXCEPT !.reviews = n.value.reviews,
                                       !.totalPages = n.value.totalPages,
                                       !.totalReviews = n.value.totalResults,
                                       !.isLoadingReviews = FALSE]
                   ELSE [detail EXCEPT !.reviews = <<>>,
                                       !.totalReviews = 0,
                                       !.totalPages = 0,
                                       !.isLoadingReviews = FALSE]
    /\ detailCalls' = [detailCalls EXCEPT
                         !.loads = @ - 1,
                         !.detached = @ + LiveCalls(detailCalls),
                         !.likes = DetailCallsInit.likes,
                         !.unlikes = DetailCallsInit.unlikes]
    /\ lastOp' = OpOut("reviewsLoaded", http.status, Some(n))
    /\ UNCHANGED <<outsideDetail, authVars>>

\* MovieDetailComponent.previousPage; this.movie!.id throws after the
\* decrement when no movie is loaded
DetailPreviousPage ==
    /\ IF detail.currentReviewPage > 0
         THEN IF detail.movie # None
                THEN loadReviews([detail EXCEPT !.currentReviewPage = @ - 1],
                                 detailCalls)
                ELSE /\ detail' = [detail EXCEPT !.currentReviewPage = @ - 1]
                     /\ UNCHANGED detailCalls
         ELSE UNCHANGED <<detail, detailCalls>>
    /\ lastOp' = Op("previousPage", detail.currentReviewPage)
    /\ UNCHANGED <<outsideDetail, authVars>>

\* MovieDetailComponent.nextPage; this.movie!.id throws after the increment
\* when no movie is loaded
DetailNextPage ==
    /\ IF detail.currentReviewPage < detail.totalPages - 1
         THEN IF detail.movie # None
                THEN loadReviews([detail EXCEPT !.currentReviewPage = @ + 1],
                                 detailCalls)
                ELSE /\ detail' = [detail EXCEPT !.currentReviewPage = @ + 1]
                     /\ UNCHANGED detailCalls
         ELSE UNCHANGED <<detail, detailCalls>>
    /\ lastOp' = Op("nextPage", detail.currentReviewPage)
    /\ UNCHANGED <<outsideDetail, authVars>>

\* the two-way bindings of the review form: the title or the content typed
SetReviewText(field, text) ==
    /\ detail.initialized
    /\ detail' = [detail EXCEPT !.reviewForm[field] = text]
    /\ lastOp' = Op("setReviewText", 0)
    /\ UNCHANGED <<detailCalls, outsideDetail, authVars>>

\* MovieDetailComponent.setRating
setRating(rating) ==
    /\ detail.initialized
    /\ detail' = [detail EXCEPT !.reviewForm.rating = rating]
    /\ lastOp' = Op("setRating", rating)
    /\ UNCHANGED <<detailCalls, outsideDetail, authVars>>

\* cancelReview applied to the fields d
cancelReview(d) ==
    [d EXCEPT !.reviewForm = EmptyReviewForm,
              !.editingReview = None,
              !.showReviewForm = FALSE]

\* MovieDetailComponent.cancelReview
CancelReview ==
    /\ detail.initialized
    /\ detail' = cancelReview(detail)
    /\ lastOp' = Op("cancelReview", 0)
    /\ UNCHANGED <<detailCalls, outsideDetail, authVars>>

\* MovieDetailComponent.toggleReviewForm
ToggleReviewForm ==
    /\ detail.initialized
    /\ detail' = IF detail.showReviewForm
                   THEN cancelReview([detail EXCEPT !.showReviewForm = FALSE])
                   ELSE [detail EXCEPT !.showReviewForm = TRUE]
    /\ lastOp' = Op("toggleReviewForm", 0)
    /\ UNCHANGED <<detailCalls, outsideDetail, authVars>>

\* MovieDetailComponent.editReview of the i-th review shown
EditReview(i) ==
    /\ i \in DOMAIN detail.reviews
    /\ detail' = [detail EXCEPT
                    !.editingReview = Some(detail.reviews[i].id),
                    !.reviewForm = [rating |-> detail.reviews[i].rating,
                                    title |-> detail.reviews[i].title,
                                    content |-> detail.reviews[i].content],
                    !.showReviewForm = TRUE]
    /\ lastOp' = Op("editReview", i)
    /\ UNCHANGED <<detailCalls, outsideDetail, authVars>>

\* MovieDetailComponent.submitReview: updateReview when a review is being
\* edited, createReview otherwise
SubmitReview ==
    /\ detail.initialized
    /\ IF ~isReviewValid(detail.reviewForm) \/ detail.movie = None
         THEN UNCHANGED <<detail, detailCalls>>
         ELSE /\ detailCalls.submits < MaxPending
              /\ detail' = [detail EXCEPT !.isSubmitting = TRUE]
              /\ detailCalls' = [detailCalls EXCEPT !.submits = @ + 1]
    /\ lastOp' = Op("submitReview", 0)
    /\ UNCHANGED <<outsideDetail, authVars>>

\* the next callback of createReview and of updateReview
SubmitSuccess ==
    /\ detailCalls.submits > 0
    /\ loadReviews(cancelReview([detail EXCEPT !.isSubmitting = FALSE,
                                               !.showReviewForm = FALSE]),
                   [detailCalls EXCEPT !.submits = @ - 1])
    /\ lastOp' = Op("submitSuccess", 0)
    /\ UNCHANGED <<outsideDetail, authVars>>

\* the error callback of createReview and of updateReview
SubmitError ==
    /\ detailCalls.submits > 0
    /\ detail' = [detail EXCEPT !.isSubmitting = FALSE]
    /\ detailCalls' = [detailCalls EXCEPT !.submits = @ - 1]
    /\ lastOp' = Op("submitError", 0)
    /\ UNCHANGED <<outsideDetail, authVars>>

\* MovieDetailComponent.deleteReview, with the answer to confirm()
DeleteReview(reviewId, confirmed) ==
    /\ detail.initialized
    /\ IF ~confirmed
         THEN UNCHANGED detailCalls
         ELSE /\ detailCalls.deletes < MaxPending
              /\ detailCalls' = [detailCalls EXCEPT !.deletes = @ + 1]
    /\ lastOp' = Op("deleteReview", reviewId)
    /\ UNCHANGED <<detail, outsideDetail, authVars>>

\* the next callback of deleteReview; this.movie!.id throws when no movie is
\* loaded
DeleteSuccess ==
    /\ detailCalls.deletes > 0
    /\ IF detail.movie # None
         THEN loadReviews(detail, [detailCalls EXCEPT !.deletes = @ - 1])
         ELSE /\ detailCalls' = [detailCalls EXCEPT !.deletes = @ - 1]
              /\ UNCHANGED detail
    /\ lastOp' = Op("deleteSuccess", 0)
    /\ UNCHANGED <<outsideDetail, authVars>>

\* the error callback of deleteReview
DeleteError ==
    /\ detailCalls.deletes > 0
    /\ detailCalls' = [detailCalls EXCEPT !.deletes = @ - 1]
    /\ lastOp' = Op("deleteError", 0)
    /\ UNCHANGED <<detail, outsideDetail, authVars>>

\* MovieDetailComponent.toggleLike of the i-th review shown
ToggleLike(i) ==
    /\ i \in DOMAIN detail.reviews
    /\ LET review == detail.reviews[i] IN
       IF ~detail.isAuthenticated
         THEN UNCHANGED detailCalls
         ELSE IF review.isLiked
           THEN /\ LiveCalls(detailCalls) + detailCalls.detached < MaxPendingLikes
                /\ detailCalls' = [detailCalls EXCEPT !.unlikes[review.id] = @ + 1]
           ELSE /\ LiveCalls(detailCalls) + detailCalls.detached < MaxPendingLikes
                /\ review.likesCount < MaxLikes
                /\ detailCalls' = [detailCalls EXCEPT !.likes[review.id] = @ + 1]
    /\ lastOp' = Op("toggleLike", i)
    /\ UNCHANGED <<detail, outsideDetail, authVars>>

\* the next callback of likeReview, for a review that is still shown
LikeSuccess(id) ==
    /\ detailCalls.likes[id] > 0
    /\ detailCalls' = [detailCalls EXCEPT !.likes[id] = @ - 1]
    /\ detail' = [detail EXCEPT !.reviews =
                    [i \in DOMAIN @ |->
                       IF @[i].id = id
                         THEN [@[i] EXCEPT !.isLiked = TRUE, !.likesCount = @ + 1]
                         ELSE @[i]]]
    /\ lastOp' = Op("likeSuccess", id)
    /\ UNCHANGED <<outsideDetail, authVars>>

\* the next callback of unlikeReview, for a review that is still shown
UnlikeSuccess(id) ==
    /\ detailCalls.unlikes[id] > 0
    /\ detailCalls' = [detailCalls EXCEPT !.unlikes[id] = @ - 1]
    /\ detail' = [detail EXCEPT !.reviews =
                    [i \in DOMAIN @ |->
                       IF @[i].id = id
                         THEN [@[i] EXCEPT !.isLiked = FALSE,
                                           !.likesCount = IF @ - 1 > 0 THEN @ - 1 ELSE 0]
                         ELSE @[i]]]
    /\ lastOp' = Op("unlikeSuccess", id)
    /\ UNCHANGED <<outsideDetail, authVars>>

\* the error callbacks of likeReview and unlikeReview: a log line
LikeError(id) ==
    /\ detailCalls.likes[id] > 0
    /\ detailCalls' = [detailCalls EXCEPT !.likes[id] = @ - 1]
    /\ lastOp' = Op("likeError", id)
    /\ UNCHANGED <<detail, outsideDetail, authVars>>

UnlikeError(id) ==
    /\ detailCalls.unlikes[id] > 0
    /\ detailCalls' = [detailCalls EXCEPT !.unlikes[id] = @ - 1]
    /\ lastOp' = Op("unlikeError", id)
    /\ UNCHANGED <<detail, outsideDetail, authVars>>

\* a like or unlike call resolves for a review object that a reload replaced:
\* the callback writes to an object the page no longer shows
DetachedLikeDone ==
    /\ detailCalls.detached > 0
    /\ detailCalls' = [detailCalls EXCEPT !.detached = @ - 1]
    /\ lastOp' = Op("detachedLikeDone", 0)
    /\ UNCHANGED <<detail, outsideDetail, authVars>>

\* the next callback of checkWatchlistStatus: the entry is fetched when the
\* movie is in the watchlist
WatchlistStatusChecked(inWatchlist) ==
    /\ detailCalls.statusChecks > 0
    /\ detail' = [detail EXCEPT !.isInWatchlist = inWatchlist]
    /\ detailCalls' = [detailCalls EXCEPT
                         !.statusChecks = @ - 1,
                         !.entryLoads = IF inWatchlist THEN @ + 1 ELSE @]
    /\ lastOp' = Op("watchlistStatusChecked", 0)
    /\ UNCHANGED <<outsideDetail, authVars>>

\* the error callback of checkWatchlistStatus: a log line
WatchlistStatusCheckError ==
    /\ detailCalls.statusChecks > 0
    /\ detailCalls' = [detailCalls EXCEPT !.statusChecks = @ - 1]
    /\ lastOp' = Op("watchlistStatusCheckError", 0)
    /\ UNCHANGED <<detail, outsideDetail, authVars>>

\* the next callback of getWatchlistEntry
WatchlistEntryLoaded(id, status) ==
    /\ detailCalls.entryLoads > 0
    /\ detail' = [detail EXCEPT !.currentWatchlistId = Some(id),
                                !.currentStatus = Some(status)]
    /\ detailCalls' = [detailCalls EXCEPT !.entryLoads = @ - 1]
    /\ lastOp' = Op("watchlistEntryLoaded", id)
    /\ UNCHANGED <<outsideDetail, authVars>>

\* the error callback of getWatchlistEntry: a log line
WatchlistEntryError ==
    /\ detailCalls.entryLoads > 0
    /\ detailCalls' = [detailCalls EXCEPT !.entryLoads = @ - 1]
    /\ lastOp' = Op("watchlistEntryError", 0)
    /\ UNCHANGED <<detail, outsideDetail, authVars>>

\* MovieDetailComponent.addToWatchlist(status)
DetailAddToWatchlist(status) ==
    /\ detail.initialized
    /\ IF ~detail.isAuthenticated
         THEN /\ navigated' = LoginRoute
              /\ UNCHANGED <<detail, detailCalls>>
         ELSE IF detail.movie = None
           THEN UNCHANGED <<detail, detailCalls, navigated>>
           ELSE /\ detailCalls.adds[status] < MaxPendingAdds
                /\ detail' = [detail EXCEPT !.isAddingToWatchlist = TRUE]
                /\ detailCalls' = [detailCalls EXCEPT !.adds[status] = @ + 1]
                /\ UNCHANGED navigated
    /\ lastOp' = Op("detailAddToWatchlist", 0)
    /\ UNCHANGED <<outsideDetailPage, authVars>>

\* the next callback of addToWatchlist(status), with the id of the new entry
DetailAddSuccess(status, id) ==
    /\ detailCalls.adds[status] > 0
    /\ detail' = [detail EXCEPT !.isInWatchlist = TRUE,
                                !.currentWatchlistId = Some(id),
                                !.currentStatus = Some(status),
                                !.isAddingToWatchlist = FALSE,
                                !.showStatusDropdown = FALSE]
    /\ detailCalls' = [detailCalls EXCEPT !.adds[status] = @ - 1]
    /\ lastOp' = Op("detailAddSuccess", id)
    /\ UNCHANGED <<outsideDetail, authVars>>

\* the error callback of addToWatchlist(status)
DetailAddError(status) ==
    /\ detailCalls.adds[status] > 0
    /\ detail' = [detail EXCEPT !.isAddingToWatchlist = FALSE]
    /\ detailCalls' = [detailCalls EXCEPT !.adds[status] = @ - 1]
    /\ lastOp' = Op("detailAddError", 0)
    /\ UNCHANGED <<outsideDetail, authVars>>

\* MovieDetailComponent.updateWatchlistStatus(newStatus)
UpdateWatchlistStatus(newStatus) ==
    /\ detail.initialized
    /\ IF detail.currentWatchlistId = None
         THEN UNCHANGED <<detail, detailCalls>>
         ELSE /\ detailCalls.statusUpdates[newStatus] < MaxPendingAdds
              /\ detail' = [detail EXCEPT !.isAddingToWatchlist = TRUE]
              /\ detailCalls' = [detailCalls EXCEPT !.statusUpdates[newStatus] = @ + 1]
    /\ lastOp' = Op("updateWatchlistStatus", 0)
    /\ UNCHANGED <<outsideDetail, authVars>>

\* the next callback of updateWatchlistStatus(newStatus)
UpdateWatchlistStatusSuccess(newStatus) ==
    /\ detailCalls.statusUpdates[newStatus] > 0
    /\ detail' = [detail EXCEPT !.currentStatus = Some(newStatus),
                                !.isAddingToWatchlist = FALSE,
                                !.showStatusDropdown = FALSE]
    /\ detailCalls' = [detailCalls EXCEPT !.statusUpdates[newStatus] = @ - 1]
    /\ lastOp' = Op("updateWatchlistStatusSuccess", 0)
    /\ UNCHANGED <<outsideDetail, authVars>>

\* the error callback of updateWatchlistStatus(newStatus)
UpdateWatchlistStatusError(newStatus) ==
    /\ detailCalls.statusUpdates[newStatus] > 0
    /\ detail' = [detail EXCEPT !.isAddingToWatchlist = FALSE]
    /\ detailCalls' = [detailCalls EXCEPT !.statusUpdates[newStatus] = @ - 1]
    /\ lastOp' = Op("updateWatchlistStatusError", 0)
    /\ UNCHANGED <<outsideDetail, authVars>>

\* MovieDetailComponent.removeFromWatchlist, with the answer to confirm()
DetailRemoveFromWatchlist(confirmed) ==
    /\ detail.initialized
    /\ IF detail.currentWatchlistId = None \/ ~confirmed
         THEN UNCHANGED <<detail, detailCalls>>
         ELSE /\ detailCalls.removes < MaxPendingAdds
              /\ detail' = [detail EXCEPT !.isAddingToWatchlist = TRUE]
              /\ detailCalls' = [detailCalls EXCEPT !.removes = @ + 1]
    /\ lastOp' = Op("detailRemoveFromWatchlist", 0)
    /\ UNCHANGED <<outsideDetail, authVars>>

\* the next callback of removeFromWatchlist
DetailRemoveSuccess ==
    /\ detailCalls.removes > 0
    /\ detail' = [detail EXCEPT !.isInWatchlist = FALSE,
                                !.currentWatchlistId = None,
                                !.currentStatus = None,
                                !.isAddingToWatchlist = FALSE]
    /\ detailCalls' = [detailCalls EXCEPT !.removes = @ - 1]
    /\ lastOp' = Op("detailRemoveSuccess", 0)
    /\ UNCHANGED <<outsideDetail, authVars>>

\* the error callback of removeFromWatchlist
DetailRemoveError ==
    /\ detailCalls.removes > 0
    /\ detail' = [detail EXCEPT !.isAddingToWatchlist = FALSE]
    /\ detailCalls' = [detailCalls EXCEPT !.removes = @ - 1]
    /\ lastOp' = Op("detailRemoveError", 0)
    /\ UNCHANGED <<outsideDetail, authVars>>

\* MovieDetailComponent.toggleStatusDropdown
ToggleStatusDropdown ==
    /\ detail.initialized
    /\ detail' = [detail EXCEPT !.showStatusDropdown = ~@]
    /\ lastOp' = Op("toggleStatusDropdown", 0)
    /\ UNCHANGED <<detailCalls, outsideDetail, authVars>>

\* MovieDetailComponent.goBack: router.navigate(['/movies'])
GoBack ==
    /\ detail.initialized
    /\ navigated' = <<"/movies">>
    /\ lastOp' = Op("goBack", 0)
    /\ UNCHANGED <<detail, detailCalls, outsideDetailPage, authVars>>

(***************************************************************************)
(* WatchlistComponent                                                      *)
(***************************************************************************)
\* everything outside WatchlistComponent
outsideWatchlist == <<componentVars, authVars, serviceVars, initialized, navigated,
                      detail, detailCalls, upload, loginPage, registerPage>>

\* a list request: getWatchlist(page, size) for the status 'ALL',
\* getWatchlistByStatus(status, page, size) otherwise
ListRequest(status, page) == [status |-> status, page |-> page]

\* a WatchlistResponse: the items and the page fields of the server
WatchlistResponse(content, number, pages, elements) ==
    [content |-> content, number |-> number, totalPages |-> pages,
     totalElements |-> elements]

\* loadWatchlist(): one more list request in flight, for the page and the
\* status of the fields w
loadWatchlist(w, calls) ==
    /\ calls.lists < MaxPending
    /\ watchlistPage' = [w EXCEPT !.isLoading = TRUE, !.errorMessage = ""]
    /\ watchlistCalls' =
         [calls EXCEPT !.lists = @ + 1,
                       !.lastList = Some(ListRequest(w.selectedStatus, w.currentPage))]

\* loadStats(): one more statistics request in flight
loadStats(calls) == [calls EXCEPT !.stats = @ + 1]

\* WatchlistComponent.ngOnInit
WatchlistNgOnInit ==
    /\ ~watchlistPage.initialized
    /\ loadWatchlist([watchlistPage EXCEPT !.initialized = TRUE],
                     loadStats(watchlistCalls))
    /\ lastOp' = Op("watchlistNgOnInit", 0)
    /\ UNCHANGED outsideWatchlist

\* the next callback of loadWatchlist
WatchlistLoaded(response) ==
    /\ watchlistCalls.lists > 0
    /\ watchlistCalls' = [watchlistCalls EXCEPT !.lists = @ - 1]
    /\ watchlistPage' = [watchlistPage EXCEPT
                           !.watchlistItems = response.content,
                           !.totalPages = response.totalPages,
                           !.totalResults = response.totalElements,
                           !.currentPage = response.number,
                           !.isLoading = FALSE]
    /\ lastOp' = OpOut("watchlistLoaded", response.number, Some(response.totalPages))
    /\ UNCHANGED outsideWatchlist

\* the error callback of loadWatchlist
WatchlistLoadError(message) ==
    /\ watchlistCalls.lists > 0
    /\ watchlistCalls' = [watchlistCalls EXCEPT !.lists = @ - 1]
    /\ watchlistPage' = [watchlistPage EXCEPT !.errorMessage = message,
                                              !.isLoading = FALSE]
    /\ lastOp' = Op("watchlistLoadError", 0)
    /\ UNCHANGED outsideWatchlist

\* the callbacks of loadStats
StatsLoaded ==
    /\ watchlistCalls.stats > 0
    /\ watchlistCalls' = [watchlistCalls EXCEPT !.stats = @ - 1]
    /\ lastOp' = Op("statsLoaded", 0)
    /\ UNCHANGED <<watchlistPage, outsideWatchlist>>

\* WatchlistComponent.updateStatus of an item shown
UpdateStatus ==
    /\ watchlistPage.watchlistItems # <<>>
    /\ watchlistCalls.updates < MaxPending
    /\ watchlistCalls' = [watchlistCalls EXCEPT !.updates = @ + 1]
    /\ lastOp' = Op("updateStatus", 0)
    /\ UNCHANGED <<watchlistPage, outsideWatchlist>>

\* the next callback of updateStatus: the statistics are reloaded, and the
\* list too when a status is selected
UpdateStatusSuccess ==
    /\ watchlistCalls.updates > 0
    /\ watchlistCalls.stats < MaxPending
    /\ IF watchlistPage.selectedStatus # "ALL"
         THEN loadWatchlist(watchlistPage,
                            loadStats([watchlistCalls EXCEPT !.updates = @ - 1]))
         ELSE /\ watchlistCalls' = loadStats([watchlistCalls EXCEPT !.updates = @ - 1])
              /\ UNCHANGED watchlistPage
    /\ lastOp' = Op("updateStatusSuccess", 0)
    /\ UNCHANGED outsideWatchlist

\* the error callback of updateStatus
UpdateStatusError(message) ==
    /\ watchlistCalls.updates > 0
    /\ watchlistCalls' = [watchlistCalls EXCEPT !.updates = @ - 1]
    /\ watchlistPage' = [watchlistPage EXCEPT
                           !.errorMessage = "Failed to update status: " \o message]
    /\ lastOp' = Op("updateStatusError", 0)
    /\ UNCHANGED outsideWatchlist

\* the remove, privacy and notes requests in flight
ItemCalls(calls) ==
    calls.privacy + calls.removes[1] + calls.removes[2]
                  + calls.notes[1] + calls.notes[2]

\* this.watchlistItems.filter(i => i.id !== item)
WithoutItem(items, item) == SelectSeq(items, LAMBDA i : i # item)

\* WatchlistComponent.removeFromWatchlist of an item shown, with the answer
\* to confirm()
RemoveFromWatchlist(item, confirmed) ==
    /\ item \in Range(watchlistPage.watchlistItems)
    /\ IF ~confirmed
         THEN UNCHANGED watchlistCalls
         ELSE /\ ItemCalls(watchlistCalls) < MaxItemCalls
              /\ watchlistCalls' = [watchlistCalls EXCEPT !.removes[item] = @ + 1]
    /\ lastOp' = Op("removeFromWatchlist", item)
    /\ UNCHANGED <<watchlistPage, outsideWatchlist>>

\* the next callback of removeFromWatchlist: the item leaves the local list
\* and the statistics are reloaded
RemoveSuccess(item) ==
    /\ watchlistCalls.removes[item] > 0
    /\ watchlistCalls.stats < MaxPending
    /\ watchlistPage' = [watchlistPage EXCEPT
                           !.watchlistItems = WithoutItem(@, item),
                           !.totalResults = @ - 1]
    /\ watchlistCalls' = loadStats([watchlistCalls EXCEPT !.removes[item] = @ - 1])
    /\ lastOp' = Op("removeSuccess", item)
    /\ UNCHANGED outsideWatchlist

\* the error callback of removeFromWatchlist
RemoveError(item, message) ==
    /\ watchlistCalls.removes[item] > 0
    /\ watchlistCalls' = [watchlistCalls EXCEPT !.removes[item] = @ - 1]
    /\ watchlistPage' = [watchlistPage EXCEPT
                           !.errorMessage = "Failed to remove item: " \o message]
    /\ lastOp' = Op("removeError", item)
    /\ UNCHANGED outsideWatchlist

\* WatchlistComponent.togglePrivacy of an item shown
TogglePrivacy(item, isPublic) ==
    /\ item \in Range(watchlistPage.watchlistItems)
    /\ ItemCalls(watchlistCalls) < MaxItemCalls
    /\ watchlistCalls' = [watchlistCalls EXCEPT !.privacy = @ + 1]
    /\ lastOp' = Op("togglePrivacy", item)
    /\ UNCHANGED <<watchlistPage, outsideWatchlist>>

\* the next callback of togglePrivacy: a log line
TogglePrivacySuccess ==
    /\ watchlistCalls.privacy > 0
    /\ watchlistCalls' = [watchlistCalls EXCEPT !.privacy = @ - 1]
    /\ lastOp' = Op("togglePrivacySuccess", 0)
    /\ UNCHANGED <<watchlistPage, outsideWatchlist>>

\* the error callback of togglePrivacy
TogglePrivacyError(message) ==
    /\ watchlistCalls.privacy > 0
    /\ watchlistCalls' = [watchlistCalls EXCEPT !.privacy = @ - 1]
    /\ watchlistPage' = [watchlistPage EXCEPT
                           !.errorMessage = "Failed to update privacy: " \o message]
    /\ lastOp' = Op("togglePrivacyError", 0)
    /\ UNCHANGED outsideWatchlist

\* WatchlistComponent.startEditingNotes
StartEditingNotes(item) ==
    /\ item \in Range(watchlistPage.watchlistItems)
    /\ watchlistPage' = [watchlistPage EXCEPT !.editingNotes = @ \cup {item}]
    /\ lastOp' = Op("startEditingNotes", item)
    /\ UNCHANGED <<watchlistCalls, outsideWatchlist>>

\* WatchlistComponent.cancelEditingNotes
CancelEditingNotes(item) ==
    /\ watchlistPage.initialized
    /\ watchlistPage' = [watchlistPage EXCEPT !.editingNotes = @ \ {item}]
    /\ lastOp' = Op("cancelEditingNotes", item)
    /\ UNCHANGED <<watchlistCalls, outsideWatchlist>>

\* WatchlistComponent.saveNotes of an item shown
SaveNotes(item) ==
    /\ item \in Range(watchlistPage.watchlistItems)
    /\ ItemCalls(watchlistCalls) < MaxItemCalls
    /\ watchlistCalls' = [watchlistCalls EXCEPT !.notes[item] = @ + 1]
    /\ lastOp' = Op("saveNotes", item)
    /\ UNCHANGED <<watchlistPage, outsideWatchlist>>

\* the next callback of saveNotes: delete this.editingNotes[item.id]
SaveNotesSuccess(item) ==
    /\ watchlistCalls.notes[item] > 0
    /\ watchlistCalls' = [watchlistCalls EXCEPT !.notes[item] = @ - 1]
    /\ watchlistPage' = [watchlistPage EXCEPT !.editingNotes = @ \ {item}]
    /\ lastOp' = Op("saveNotesSuccess", item)
    /\ UNCHANGED outsideWatchlist

\* the error callback of saveNotes
SaveNotesError(item, message) ==
    /\ watchlistCalls.notes[item] > 0
    /\ watchlistCalls' = [watchlistCalls EXCEPT !.notes[item] = @ - 1]
    /\ watchlistPage' = [watchlistPage EXCEPT
                           !.errorMessage = "Failed to save notes: " \o message]
    /\ lastOp' = Op("saveNotesError", item)
    /\ UNCHANGED outsideWatchlist

\* WatchlistComponent.filterByStatus
filterByStatus(status) ==
    /\ watchlistPage.initialized
    /\ loadWatchlist([watchlistPage EXCEPT !.selectedStatus = status,
                                           !.currentPage = 0],
                     watchlistCalls)
    /\ lastOp' = Op("filterByStatus", 0)
    /\ UNCHANGED outsideWatchlist

\* a pager that goes on from the last page
WatchlistNextPageOffByOne ==
    /\ watchlistPage.initialized
    /\ IF watchlistPage.currentPage < watchlistPage.totalPages
         THEN loadWatchlist([watchlistPage EXCEPT !.currentPage = @ + 1],
                            watchlistCalls)
         ELSE UNCHANGED <<watchlistPage, watchlistCalls>>
    /\ lastOp' = Op("watchlistNextPage", 0)
    /\ UNCHANGED outsideWatchlist

\* WatchlistComponent.nextPage
WatchlistNextPage ==
    /\ watchlistPage.initialized
    /\ IF watchlistPage.currentPage < watchlistPage.totalPages - 1
         THEN loadWatchlist([watchlistPage EXCEPT !.currentPage = @ + 1],
                            watchlistCalls)
         ELSE UNCHANGED <<watchlistPage, watchlistCalls>>
    /\ lastOp' = Op("watchlistNextPage", 0)
    /\ UNCHANGED outsideWatchlist

\* WatchlistComponent.prevPage
WatchlistPrevPage ==
    /\ watchlistPage.initialized
    /\ IF watchlistPage.currentPage > 0
         THEN loadWatchlist([watchlistPage EXCEPT !.currentPage = @ - 1],
                            watchlistCalls)
         ELSE UNCHANGED <<watchlistPage, watchlistCalls>>
    /\ lastOp' = Op("watchlistPrevPage", 0)
    /\ UNCHANGED outsideWatchlist

(***************************************************************************)
(* Specifications                                                          *)
(***************************************************************************)
\* the fields after construction; the browser's storage may hold a user of an
\* earlier session, which AuthService's constructor loads
Init ==
    /\ filter = DefaultFilter
    /\ currentPage = 0
    /\ pageSize = 20
    /\ totalPages = 0
    /\ isLoading = FALSE
    /\ errorMessage = ""
    /\ movies = <<>>
    /\ searchResponse = None
    /\ movieWatchlistStatus = [m \in MovieIds |-> None]
    /\ isAddingToWatchlist = [m \in MovieIds |-> None]
    /\ isAuthenticated = FALSE
    /\ isExporting = FALSE
    /\ currentUserSubject \in {None, Some("user")}
    /\ isAuthenticatedSubject = FALSE
    /\ initialized = FALSE
    /\ navigated = None
    /\ latestPending = FALSE
    /\ stalePending = 0
    /\ lastRequest = None
    /\ pendingLookups = [m \in MovieIds |-> 0]
    /\ pendingAdds = [m \in MovieIds |-> 0]
    /\ exportRequest = None
    /\ pendingExports = 0
    /\ lastOp = Op("constructor", 0)
    /\ InitPages

\* an anonymous visitor: the storage holds no user
InitAnonymous == Init /\ currentUserSubject = None

\* what the file dialog returns: nothing, a CSV file, another file
Files == {None, Some("movies.csv"), Some("notes.txt")}

\* error.message of a failed import, "" when absent
ImportErrors == {"", "Import rejected"}

\* the search page of an anonymous visitor: searches, pager, page size
Next ==
    \/ NgOnInit
    \/ \E e \in PagerEdits : SetFilter(e[1], e[2])
    \/ \E g \in PagerGenres : ToggleGenre(g)
    \/ SearchMovies
    \/ ClearFilters
    \/ PrevPage
    \/ NextPage
    \/ \E value \in PageSizeInputs : ChangePageSize(value)
    \/ \E latest \in BOOLEAN, response \in Responses : HandleSearchSuccess(latest, response)
    \/ \E latest \in BOOLEAN, message \in ErrorMessages : HandleSearchError(latest, message)

Spec == InitAnonymous /\ [][Next]_vars

\* what the servers answer and what the page-size selector offers while the
\* CSV import is explored
ImportResponses == {[movies |-> <<1, 2>>, totalPages |-> 2]}
ImportSearchErrors == {"Search failed"}
ImportPageSizes == {<<5, 0>>}

\* the search page of an anonymous visitor: every operation that issues a
\* search, the timer of the CSV import, which outlives the page, and opening a
\* movie
NextImport ==
    \/ NgOnInit
    \/ \E e \in PagerEdits : SetFilter(e[1], e[2])
    \/ \E g \in PagerGenres : ToggleGenre(g)
    \/ SearchMovies
    \/ ClearFilters
    \/ PrevPage
    \/ NextPage
    \/ \E value \in ImportPageSizes : ChangePageSize(value)
    \/ \E latest \in BOOLEAN, response \in ImportResponses :
          HandleSearchSuccess(latest, response)
    \/ \E latest \in BOOLEAN, message \in ImportSearchErrors :
          HandleSearchError(latest, message)
    \/ \E movieId \in MovieIds : ViewMovieDetail(movieId)
    \/ \E file \in Files : OnFileSelected(file)
    \/ UploadCsvFile
    \/ \E message \in ImportErrors : ImportError(message)
    \/ ImportSuccess
    \/ UploadRefresh

SpecImport == InitAnonymous /\ [][NextImport]_vars

\* the watchlist overlay and quick add, with or without a stored session
NextWatchlist ==
    \/ NgOnInit
    \/ Logout
    \/ SearchMovies
    \/ \E latest \in BOOLEAN, response \in Responses : HandleSearchSuccess(latest, response)
    \/ \E m \in MovieIds : QuickAddToWatchlist(m)
    \/ \E m \in MovieIds : AddSuccess(m)
    \/ \E m \in MovieIds : AddError(m)
    \/ \E m \in MovieIds, b \in BOOLEAN : LookupSuccess(m, b)
    \/ \E m \in MovieIds : LookupError(m)

SpecWatchlist == Init /\ [][NextWatchlist]_vars

\* a visitor whose session was stored by an earlier login
InitSignedIn == Init /\ currentUserSubject = Some("user")

\* the watchlist overlay of a signed-in user: searches and their lookups
NextOverlay ==
    \/ NgOnInit
    \/ SearchMovies
    \/ \E latest \in BOOLEAN, response \in Responses : HandleSearchSuccess(latest, response)
    \/ \E m \in MovieIds, b \in BOOLEAN : LookupSuccess(m, b)
    \/ \E m \in MovieIds : LookupError(m)

SpecOverlay == InitSignedIn /\ [][NextOverlay]_vars

\* what the servers answer while the watchlist of a signed-in user is explored
SignedInResponses == {[movies |-> <<1, 2>>, totalPages |-> 2]}
SignedInErrors == {"Search failed"}

\* a signed-in user's page: the popular-movies loads, the overlay, quick add and
\* their completions
NextSignedIn ==
    \/ NgOnInit
    \/ ClearFilters
    \/ \E latest \in BOOLEAN, response \in SignedInResponses :
          HandleSearchSuccess(latest, response)
    \/ \E latest \in BOOLEAN, message \in SignedInErrors :
          HandleSearchError(latest, message)
    \/ \E m \in MovieIds : QuickAddToWatchlist(m)
    \/ \E m \in MovieIds : AddSuccess(m)
    \/ \E m \in MovieIds : AddError(m)
    \/ \E m \in MovieIds, b \in BOOLEAN : LookupSuccess(m, b)
    \/ \E m \in MovieIds : LookupError(m)

SpecSignedIn == InitSignedIn /\ [][NextSignedIn]_vars

\* error.error?.message of a refused login or registration, "" when absent
LoginErrors == {"", "Bad credentials"}
RegisterErrors == {"", "Email already registered"}

\* the session: the login and register pages, logout and the route guard
NextSession ==
    \/ LoginNgOnInit
    \/ \E valid \in BOOLEAN : LoginOnSubmit(valid)
    \/ LoginSuccess
    \/ \E message \in LoginErrors : LoginError(message)
    \/ LoginRedirect
    \/ GoToRegister
    \/ RegisterNgOnInit
    \/ \E valid \in BOOLEAN : RegisterOnSubmit(valid)
    \/ RegisterSuccess
    \/ \E message \in RegisterErrors : RegisterError(message)
    \/ RegisterRedirect
    \/ GoToLogin
    \/ Logout
    \/ \E i \in DOMAIN GuardedUrls : CanActivate(i)

SpecSession == Init /\ [][NextSession]_vars

\* the page that holds both reviews of the movie
BothReviews == ReviewList(<<Review(1, FALSE, 0), Review(2, TRUE, 1)>>, 0, 1, 2)

\* the pages the review endpoint may answer with, and the statuses it may
\* fail with (0: no connection)
ReviewLists ==
    {ReviewList(<<Review(1, FALSE, 0)>>, 0, 2, 2),
     ReviewList(<<Review(2, TRUE, 1)>>, 1, 2, 2),
     BothReviews}

HttpFailures == {0, 404, 500}

\* the reviews of the movie page: loads, the pager, submissions and deletions
NextReviews ==
    \/ DetailNgOnInit
    \/ \E ok \in BOOLEAN : MovieLoaded(ok)
    \/ \E list \in ReviewLists : ReviewsLoaded(HttpOk(list))
    \/ \E status \in HttpFailures : ReviewsLoaded(HttpFailure(status))
    \/ DetailPreviousPage
    \/ DetailNextPage
    \/ setRating(4)
    \/ \E field \in {"title", "content"} : SetReviewText(field, <<"a">>)
    \/ SubmitReview
    \/ SubmitSuccess
    \/ SubmitError
    \/ \E reviewId \in ReviewIds, confirmed \in BOOLEAN :
          DeleteReview(reviewId, confirmed)
    \/ DeleteSuccess
    \/ DeleteError

SpecReviews == Init /\ [][NextReviews]_vars

\* what can be typed into the title and the content, and the ratings
TextInputs == {<<>>, <<" ">>, <<"a">>, <<" ", "a", " ">>}

RatingInputs == {0, 4}

\* the review form: typing, editing a review shown, submitting
NextSubmit ==
    \/ DetailNgOnInit
    \/ \E ok \in BOOLEAN : MovieLoaded(ok)
    \/ ReviewsLoaded(HttpOk(BothReviews))
    \/ \E rating \in RatingInputs : setRating(rating)
    \/ \E field \in {"title", "content"}, text \in TextInputs :
          SetReviewText(field, text)
    \/ \E i \in 1..2 : EditReview(i)
    \/ CancelReview
    \/ ToggleReviewForm
    \/ SubmitReview
    \/ SubmitSuccess
    \/ SubmitError

SpecSubmit == Init /\ [][NextSubmit]_vars

\* a page whose reviews show a like without a count and one like of the user
LikedReviews == ReviewList(<<Review(1, TRUE, 0), Review(2, TRUE, 1)>>, 0, 1, 2)

\* likes on the movie page while the session ends
NextLikes ==
    \/ DetailNgOnInit
    \/ Logout
    \/ \E list \in {BothReviews, LikedReviews} : ReviewsLoaded(HttpOk(list))
    \/ DeleteReview(1, TRUE)
    \/ DeleteSuccess
    \/ MovieLoaded(TRUE)
    \/ \E i \in 1..2 : ToggleLike(i)
    \/ \E id \in ReviewIds : LikeSuccess(id)
    \/ \E id \in ReviewIds : LikeError(id)
    \/ \E id \in ReviewIds : UnlikeSuccess(id)
    \/ \E id \in ReviewIds : UnlikeError(id)
    \/ DetachedLikeDone

SpecLikes == Init /\ [][NextLikes]_vars

\* the watchlist buttons of the movie page, and the way back to the search
NextDetailWatchlist ==
    \/ DetailNgOnInit
    \/ Logout
    \/ \E ok \in BOOLEAN : MovieLoaded(ok)
    \/ \E inWatchlist \in BOOLEAN : WatchlistStatusChecked(inWatchlist)
    \/ WatchlistStatusCheckError
    \/ \E id \in WatchlistEntryIds, status \in DetailStatuses :
          WatchlistEntryLoaded(id, status)
    \/ WatchlistEntryError
    \/ \E status \in DetailStatuses : DetailAddToWatchlist(status)
    \/ \E status \in DetailStatuses, id \in WatchlistEntryIds :
          DetailAddSuccess(status, id)
    \/ \E status \in DetailStatuses : DetailAddError(status)
    \/ \E status \in DetailStatuses : UpdateWatchlistStatus(status)
    \/ \E status \in DetailStatuses : UpdateWatchlistStatusSuccess(status)
    \/ \E status \in DetailStatuses : UpdateWatchlistStatusError(status)
    \/ \E confirmed \in BOOLEAN : DetailRemoveFromWatchlist(confirmed)
    \/ DetailRemoveSuccess
    \/ DetailRemoveError
    \/ ToggleStatusDropdown
    \/ GoBack

SpecDetailWatchlist == Init /\ [][NextDetailWatchlist]_vars

\* the statuses the filter offers, and what the list endpoint may answer: the
\* three pages of a list, an empty list, and page 2 of a list that has shrunk
\* to one page since (the server reports the page it was asked for)
WatchlistStatuses == {"ALL", "WATCHED"}

\* error.message of a failed WatchlistService call
WatchlistErrors == {"Server error"}

WatchlistResponses ==
    {WatchlistResponse(<<1, 2>>, 0, 3, 5),
     WatchlistResponse(<<1, 2>>, 1, 3, 5),
     WatchlistResponse(<<1>>, 2, 3, 5),
     WatchlistResponse(<<>>, 0, 0, 0),
     WatchlistResponse(<<>>, 2, 1, 2)}

\* the watchlist page: loads, the status filter, the pager, status updates and
\* their reloads
NextWatchlistPage ==
    \/ WatchlistNgOnInit
    \/ \E response \in WatchlistResponses : WatchlistLoaded(response)
    \/ \E message \in WatchlistErrors : WatchlistLoadError(message)
    \/ StatsLoaded
    \/ UpdateStatus
    \/ UpdateStatusSuccess
    \/ \E message \in WatchlistErrors : UpdateStatusError(message)
    \/ \E status \in WatchlistStatuses : filterByStatus(status)
    \/ WatchlistNextPage
    \/ WatchlistPrevPage

SpecWatchlistPage == Init /\ [][NextWatchlistPage]_vars

\* the watchlist page: the items of the list loaded, their status, privacy and
\* notes, and their removal
NextWatchlistItems ==
    \/ WatchlistNgOnInit
    \/ \E response \in WatchlistResponses : WatchlistLoaded(response)
    \/ \E message \in WatchlistErrors : WatchlistLoadError(message)
    \/ StatsLoaded
    \/ UpdateStatus
    \/ UpdateStatusSuccess
    \/ \E message \in WatchlistErrors : UpdateStatusError(message)
    \/ \E item \in ItemIds, confirmed \in BOOLEAN :
          RemoveFromWatchlist(item, confirmed)
    \/ \E item \in ItemIds : RemoveSuccess(item)
    \/ \E item \in ItemIds, message \in WatchlistErrors : RemoveError(item, message)
    \/ \E item \in ItemIds, isPublic \in BOOLEAN : TogglePrivacy(item, isPublic)
    \/ TogglePrivacySuccess
    \/ \E message \in WatchlistErrors : TogglePrivacyError(message)
    \/ \E item \in ItemIds : StartEditingNotes(item)
    \/ \E item \in ItemIds : CancelEditingNotes(item)
    \/ \E item \in ItemIds : SaveNotes(item)
    \/ \E item \in ItemIds : SaveNotesSuccess(item)
    \/ \E item \in ItemIds, message \in WatchlistErrors : SaveNotesError(item, message)

SpecWatchlistItems == Init /\ [][NextWatchlistItems]_vars

\* the filters the form can have produced with at most n edits
RECURSIVE EditedFilters(_)
EditedFilters(n) ==
    IF n = 0 THEN {DefaultFilter}
    ELSE LET prev == EditedFilters(n - 1) IN
         prev \cup UNION {{[e[1] EXCEPT ![e[2]] = v] : v \in FieldInputs(e[2])} :
                          e \in prev \X FilterFields}

\* the criteria compiler: the page is up, its first load is in flight, the form
\* has been edited; the exports compile the filter
InitCompiler ==
    /\ filter \in EditedFilters(MaxEdits)
    /\ currentPage = 0
    /\ pageSize = 20
    /\ totalPages = 0
    /\ isLoading = TRUE
    /\ errorMessage = ""
    /\ movies = <<>>
    /\ searchResponse = None
    /\ movieWatchlistStatus = [m \in MovieIds |-> None]
    /\ isAddingToWatchlist = [m \in MovieIds |-> None]
    /\ isAuthenticated = FALSE
    /\ isExporting = FALSE
    /\ currentUserSubject = None
    /\ isAuthenticatedSubject = FALSE
    /\ initialized = TRUE
    /\ navigated = None
    /\ latestPending = TRUE
    /\ stalePending = 0
    /\ lastRequest = Some(popularRequest)
    /\ pendingLookups = [m \in MovieIds |-> 0]
    /\ pendingAdds = [m \in MovieIds |-> 0]
    /\ exportRequest = None
    /\ pendingExports = 0
    /\ lastOp = Op("setFilter", 0)
    /\ InitPages

NextCompiler ==
    \/ ExportCurrentPage
    \/ ExportAllResults
    \/ ExportDone

SpecCompiler == InitCompiler /\ [][NextCompiler]_vars

\* the compiler while results arrive: the exports compile the filter before and
\* after the responses of the searches in flight are handled
NextPurity ==
    \/ ExportCurrentPage
    \/ ExportAllResults
    \/ ExportDone
    \/ \E latest \in BOOLEAN, response \in Responses : HandleSearchSuccess(latest, response)
    \/ \E latest \in BOOLEAN, message \in ErrorMessages : HandleSearchError(latest, message)

SpecPurity == InitCompiler /\ [][NextPurity]_vars


(***************************************************************************)
(* Claims                                                                  *)
(***************************************************************************)
\* the filter field a request field is compiled from
FilterFieldOf(k) == IF k = "query" THEN "searchQuery" ELSE k

\* the fields of a request other than page and size
CriteriaFields == RequestFields \ {"page", "size"}

\* a response of an earlier search arrives after the latest search has succeeded
LateResponse ==
    /\ ~latestPending
    /\ ~isLoading
    /\ errorMessage = ""
    /\ searchResponse # None
    /\ stalePending' = stalePending - 1

\* C1: supersede-by-recency. When search A was issued, then search B, and B's
\* successful response has been applied, A's response arriving afterwards is
\* discarded: movies, totalPages and searchResponse stay those of B's response.
C1_StaleResponseDiscarded ==
    [][LateResponse => UNCHANGED <<movies, totalPages, searchResponse>>]_vars

\* C2: pager transitions. prevPage() with currentPage > 0 sets currentPage to
\* its old value minus 1 and issues one search carrying that page; nextPage()
\* with currentPage < totalPages - 1 sets it to its old value plus 1 and issues
\* one search carrying that page; the other request fields are compiled from the
\* current filter, which is not reset.
C2_PagerTransitions ==
    [][/\ (lastOp'.op = "prevPage" /\ currentPage > 0) =>
            /\ currentPage' = currentPage - 1
            /\ PendingSearches' = PendingSearches + 1
            /\ lastRequest' = Some(searchRequest(filter, currentPage - 1, pageSize))
            /\ filter' = filter
       /\ (lastOp'.op = "nextPage" /\ currentPage < totalPages - 1) =>
            /\ currentPage' = currentPage + 1
            /\ PendingSearches' = PendingSearches + 1
            /\ lastRequest' = Some(searchRequest(filter, currentPage + 1, pageSize))
            /\ filter' = filter]_vars

\* C3: pager boundary no-ops. prevPage() at currentPage = 0 and nextPage() at
\* currentPage = totalPages - 1 change no field of the component, issue no search
\* and no other request, and do not navigate.
C3_PagerBoundaryNoOp ==
    [][(\/ lastOp'.op = "prevPage" /\ currentPage = 0
        \/ lastOp'.op = "nextPage" /\ currentPage = totalPages - 1)
       => UNCHANGED <<componentVars, serviceVars, navigated>>]_vars

\* C3 witness: nextPage() has just run on the last page of a one-page result.
C3_Witness ==
    /\ lastOp.op = "nextPage"
    /\ totalPages = 1
    /\ currentPage = totalPages - 1
    /\ movies # <<>>

\* C4: changePageSize(n) stores n in pageSize, sets currentPage to 0 and issues
\* exactly one search, whose request has size n, page 0 and the filter and sort
\* fields that the filter compiled to before the change; the filter is untouched.
C4_ChangePageSize ==
    [][lastOp'.op = "changePageSize" =>
         LET n == lastOp'.arg
             before == searchRequest(filter, currentPage, pageSize) IN
         /\ pageSize' = n
         /\ currentPage' = 0
         /\ PendingSearches' = PendingSearches + 1
         /\ lastRequest' # None
         /\ lastRequest'[1].size = Some(n)
         /\ lastRequest'[1].page = Some(0)
         /\ \A k \in CriteriaFields : lastRequest'[1][k] = before[k]
         /\ filter' = filter]_vars

\* C4 witness: the page size was just changed to 50 while a filter was set and
\* the page size was not 50 before.
C4_Witness ==
    /\ lastOp = Op("changePageSize", 50)
    /\ pageSize = 50
    /\ filter.minYear = 2000
    /\ filter.genres = <<"Action">>
    /\ lastRequest # None
    /\ lastRequest[1].size = Some(50)
    /\ lastRequest[1].minYear = Some(2000)
    /\ lastRequest[1].genres = Some(<<"Action">>)

\* C5: compiler minimality. A compiled request always has page and size, and has
\* any other field only if the filter's value for it differs from its default.
C5_CompilerMinimality ==
    exportRequest # None =>
        LET req == exportRequest[1] IN
        /\ {"page", "size"} \subseteq PresentFields(req)
        /\ \A k \in PresentFields(req) \ {"page", "size"} :
              filter[FilterFieldOf(k)] # DefaultFilter[FilterFieldOf(k)]

\* the request holds bound k exactly when the filter's k is off its default, and
\* then with the filter's value
BoundCompiled(req, f, k) ==
    /\ req[k] = None <=> f[k] = DefaultFilter[k]
    /\ req[k] # None => req[k] = Some(f[k])

RangeBounds == {"minRating", "maxRating", "minImdbRating", "maxImdbRating",
                "minYear", "maxYear", "minRuntime", "maxRuntime"}

\* C6: independent range-bound omission. For each range pair with values inside
\* its range, the compiled request omits the min bound iff min is at its default
\* and omits the max bound iff max is at its default, whatever the other bound
\* is; a bound that is present carries the filter's value.
C6_RangeBoundsIndependent ==
    exportRequest # None =>
        \A k \in RangeBounds : BoundCompiled(exportRequest[1], filter, k)

\* C6 witness: a filter with minYear raised and maxYear at its default has been
\* compiled, and the request holds minYear but not maxYear.
C6_Witness ==
    /\ exportRequest # None
    /\ filter.minYear = 2000
    /\ filter.maxYear = 2025
    /\ exportRequest[1].minYear = Some(2000)
    /\ exportRequest[1].maxYear = None

\* C7: the foreign-content toggle defaults to true, so the compiled request has
\* searchForeign iff the toggle is false; each other quick-filter toggle is in
\* the request iff it is true.
C7_ForeignToggle ==
    exportRequest # None =>
        LET req == exportRequest[1] IN
        /\ req.searchForeign # None <=> filter.searchForeign = FALSE
        /\ \A k \in {"highlyRated", "popular", "recentlyReleased", "shortRuntime"} :
              req[k] # None <=> filter[k] = TRUE

ExampleFilter == [DefaultFilter EXCEPT !.genres = <<"Action", "Drama">>, !.minYear = 2000]

ExampleRequest ==
    [EmptyRequest EXCEPT
        !.genres = Some(<<"Action", "Drama">>),
        !.minYear = Some(2000),
        !.page = Some(0),
        !.size = Some(20),
        !.sortBy = Some("popularity"),
        !.sortDirection = Some("desc")]

\* C8: worked example. The filter with genres [Action, Drama], minYear 2000 and
\* every other field at its default, at page 0 and size 20, compiles to exactly
\* {genres, minYear, page 0, size 20, sortBy popularity, sortDirection desc}.
C8_WorkedExample ==
    (exportRequest # None /\ filter = ExampleFilter /\ currentPage = 0 /\ pageSize = 20)
        => exportRequest[1] = ExampleRequest

\* C9: duplicate-add guard. While an add for movie m is in flight, a further
\* quickAddToWatchlist(m) issues no second addToWatchlist call.
C9_DuplicateAddGuard ==
    [][(lastOp'.op = "quickAddToWatchlist" /\ pendingAdds[lastOp'.arg] > 0)
       => pendingAdds' = pendingAdds]_vars

\* C10: unauthenticated add. When the user is not authenticated, a quick add
\* issues no Watchlist Service call, navigates to /login, and leaves the status
\* cache, the in-flight flags and the result list unchanged.
C10_UnauthenticatedAdd ==
    [][(lastOp'.op = "quickAddToWatchlist" /\ ~AuthService_isAuthenticated) =>
         /\ pendingAdds' = pendingAdds
         /\ pendingLookups' = pendingLookups
         /\ navigated' = LoginRoute
         /\ UNCHANGED <<movieWatchlistStatus, isAddingToWatchlist, movies>>]_vars

\* C11: overlay deduplication. On a successful search while authenticated, one
\* lookup is issued for each id of the new page whose cache entry is absent and
\* that has no lookup pending, and none for any other id.
C11_OverlayDeduplication ==
    [][(lastOp'.op = "handleSearchSuccess" /\ isAuthenticated
           /\ AuthService_isAuthenticated) =>
         \A m \in MovieIds :
            pendingLookups'[m] - pendingLookups[m] =
               IF /\ m \in Range(movies')
                  /\ movieWatchlistStatus[m] = None
                  /\ pendingLookups[m] = 0
                 THEN 1 ELSE 0]_vars

\* C12: overlay when unauthenticated. While the user is unauthenticated a
\* successful search issues no isInWatchlist call and writes no cache entry, so
\* isMovieInWatchlist answers for every id what it answered before.
C12_OverlayUnauthenticated ==
    [][(lastOp'.op = "handleSearchSuccess" /\ ~AuthService_isAuthenticated) =>
         /\ pendingLookups' = pendingLookups
         /\ movieWatchlistStatus' = movieWatchlistStatus
         /\ \A m \in MovieIds : isMovieInWatchlist(m)' = isMovieInWatchlist(m)]_vars

\* C13: lookup failure isolation. A failing lookup of id m writes no cache entry
\* (an absent entry stays absent and isMovieInWatchlist(m) stays false), changes
\* neither movies nor errorMessage nor any other field of the component, and
\* leaves the lookups of the other ids in flight; a succeeding lookup stores the
\* server's boolean under its id.
C13_LookupFailureIsolated ==
    [][/\ lastOp'.op = "lookupError" =>
            LET m == lastOp'.arg IN
            /\ UNCHANGED <<componentVars, pendingAdds, searchVars, navigated>>
            /\ (movieWatchlistStatus[m] = None =>
                   movieWatchlistStatus'[m] = None /\ movieWatchlistStatus'[m] # Some(TRUE))
            /\ \A n \in MovieIds \ {m} : pendingLookups'[n] = pendingLookups[n]
       /\ lastOp'.op = "lookupSuccess" =>
            /\ movieWatchlistStatus'[lastOp'.arg] = lastOp'.out
            /\ UNCHANGED <<movies, errorMessage>>]_vars

\* C13 witness: of the lookups for the page [1, 2], the one for 1 succeeded with
\* true and the one for 2 has just failed: the cache holds true for 1 and no
\* entry for 2, and the page is displayed without an error.
C13_Witness ==
    /\ lastOp = Op("lookupError", 2)
    /\ movies = <<1, 2>>
    /\ errorMessage = ""
    /\ movieWatchlistStatus[1] = Some(TRUE)
    /\ movieWatchlistStatus[2] = None
    /\ ~isMovieInWatchlist(2)
    /\ \A m \in MovieIds : pendingLookups[m] = 0

\* what a lookup may complete with: an error, or the server's boolean
LookupOutcomes == {None, Some(TRUE), Some(FALSE)}

\* the cache after a lookup of movieId completes with outcome
Completed(status, movieId, outcome) ==
    IF outcome = None THEN status ELSE lookupNext(status, movieId, outcome[1])

\* C14: lookup order independence. A completing lookup writes only the cache
\* entry of its own id, and for two lookups in flight for different ids the
\* cache is the same whichever completes first, whatever each completes with.
C14_LookupOrderIndependent ==
    /\ [][lastOp'.op \in {"lookupSuccess", "lookupError"} =>
            \A n \in MovieIds \ {lastOp'.arg} :
               movieWatchlistStatus'[n] = movieWatchlistStatus[n]]_vars
    /\ [](\A m, n \in MovieIds :
            (m # n /\ pendingLookups[m] > 0 /\ pendingLookups[n] > 0) =>
               \A o1, o2 \in LookupOutcomes :
                  Completed(Completed(movieWatchlistStatus, m, o1), n, o2)
                    = Completed(Completed(movieWatchlistStatus, n, o2), m, o1))

\* C14 witness: the lookups for the page [1, 2] were issued for 1, then 2, and
\* the one for 1 completed last; both entries hold their own answer.
C14_Witness ==
    /\ lastOp.op = "lookupSuccess"
    /\ lastOp.arg = 1
    /\ lastOp.out = Some(TRUE)
    /\ movies = <<1, 2>>
    /\ movieWatchlistStatus[1] = Some(TRUE)
    /\ movieWatchlistStatus[2] = Some(FALSE)
    /\ \A m \in MovieIds : pendingLookups[m] = 0

\* a step that issues a search request
SearchIssued == PendingSearches' = PendingSearches + 1

\* C15: on success. Right after any search response resolves successfully,
\* errorMessage is empty, the response's page is stored (searchResponse, movies,
\* totalPages) and the overlay has run for the ids of that page.
C15_OnSuccess ==
    [][lastOp'.op = "handleSearchSuccess" =>
         /\ errorMessage' = ""
         /\ searchResponse' # None
         /\ movies' = searchResponse'[1].movies
         /\ totalPages' = searchResponse'[1].totalPages
         /\ isAuthenticated =>
               \A m \in Range(movies') : pendingLookups'[m] > pendingLookups[m]]_vars

\* C16: entering Searching clears the prior error. Right after any search
\* request is issued (searchMovies, pager, page size, initial load, clearFilters)
\* errorMessage is empty and isLoading is true.
C16_SearchingClearsError ==
    [][SearchIssued => errorMessage' = "" /\ isLoading' = TRUE]_vars

\* C17: no flash-to-empty. Issuing a search never changes movies, and movies
\* changes only when a search response arrives.
C17_NoFlashToEmpty ==
    [][/\ SearchIssued => movies' = movies
       /\ movies' # movies =>
             lastOp'.op \in {"handleSearchSuccess", "handleSearchError"}]_vars

\* C17 witness: a search has just been issued and is in flight while the list
\* of the previous result is still displayed.
C17_Witness ==
    /\ lastOp.op = "searchMovies"
    /\ latestPending
    /\ isLoading
    /\ movies = <<1, 2>>

\* C18: on failure. When a search response is an error, movies becomes empty,
\* errorMessage becomes the error's message, isLoading becomes false, the
\* handler leaves currentPage, pageSize and totalPages as they were, and no
\* watchlist lookup is issued.
C18_OnFailed ==
    [][lastOp'.op = "handleSearchError" =>
         /\ movies' = <<>>
         /\ Some(errorMessage') = lastOp'.out
         /\ isLoading' = FALSE
         /\ UNCHANGED <<currentPage, pageSize, totalPages>>
         /\ pendingLookups' = pendingLookups]_vars

\* C18 witness: a search has just failed after an earlier one had succeeded
\* with two pages and the page size had been changed: the list is empty, the
\* message is the error's, and the page count and page size are retained.
C18_Witness ==
    /\ lastOp.op = "handleSearchError"
    /\ lastOp.out = Some("Network error")
    /\ errorMessage = "Network error"
    /\ movies = <<>>
    /\ ~isLoading
    /\ totalPages = 2
    /\ pageSize = 50

\* the implicit popular-movies request of the specification
ImplicitRequest ==
    [k \in RequestFields |->
        CASE k = "popular" -> Some(TRUE)
          [] k = "page" -> Some(0)
          [] k = "size" -> Some(20)
          [] k = "sortBy" -> Some("popularity")
          [] k = "sortDirection" -> Some("desc")
          [] OTHER -> None]

\* C19: clear filters. clearFilters() resets every filter and sort field to its
\* default, the page to 0 and the page size to 20, and issues exactly one
\* request, {popular: true, page: 0, size: 20, sortBy: popularity,
\* sortDirection: desc}.
C19_ClearFilters ==
    [][lastOp'.op = "clearFilters" =>
         /\ filter' = DefaultFilter
         /\ currentPage' = 0
         /\ pageSize' = 20
         /\ SearchIssued
         /\ lastRequest' = Some(ImplicitRequest)]_vars

\* C20: initial activation. ngOnInit issues exactly one search request, equal to
\* {popular: true, page: 0, size: 20, sortBy: popularity, sortDirection: desc},
\* and changes no filter field; the filter's popular toggle stays false.
C20_InitialActivation ==
    [][lastOp'.op = "ngOnInit" =>
         /\ SearchIssued
         /\ PendingSearches' = 1
         /\ lastRequest' = Some(ImplicitRequest)
         /\ filter' = filter
         /\ filter'.popular = FALSE]_vars

\* C20 witness: ngOnInit has just run; its request is in flight and the
\* filter's popular toggle is false.
C20_Witness ==
    /\ lastOp.op = "ngOnInit"
    /\ latestPending
    /\ stalePending = 0
    /\ lastRequest = Some(ImplicitRequest)
    /\ filter = DefaultFilter
    /\ filter.popular = FALSE

\* C21: session freshness. Each quick add and each overlay run decides on the
\* session as it is at that moment: a quick add redirects to /login exactly when
\* the user is then unauthenticated, and issues no add in that case; a
\* successful search issues no lookup when the user is then unauthenticated.
C21_SessionFreshness ==
    [][/\ lastOp'.op = "quickAddToWatchlist" =>
            /\ navigated' = LoginRoute <=> ~AuthService_isAuthenticated
            /\ ~AuthService_isAuthenticated => pendingAdds' = pendingAdds
       /\ lastOp'.op = "handleSearchSuccess" =>
            (~AuthService_isAuthenticated => pendingLookups' = pendingLookups)]_vars

C23_AddErrorIsolated ==
    [][lastOp'.op = "addError" =>
         /\ UNCHANGED <<movies, searchResponse, totalPages, currentPage, errorMessage,
                        movieWatchlistStatus>>
         /\ isAddingToWatchlist'[lastOp'.arg] = Some(FALSE)]_vars

\* C23 witness: the add for id 2 has just failed while the page [1, 2] is
\* displayed; no error is shown and the flag of 2 is false.
C23_Witness ==
    /\ lastOp = Op("addError", 2)
    /\ movies = <<1, 2>>
    /\ searchResponse # None
    /\ errorMessage = ""
    /\ movieWatchlistStatus[2] # Some(TRUE)
    /\ isAddingToWatchlist[2] = Some(FALSE)
    /\ pendingAdds[2] = 0

\* the operations that compile the filter
Compilations == {"exportCurrentPage", "exportAllResults"}

C25_WholesaleReplacement ==
    [][lastOp'.op = "handleSearchSuccess" =>
         /\ movies' = lastOp'.out[1].movies
         /\ totalPages' = lastOp'.out[1].totalPages]_vars

\* C25 witness: the page [2, 1] has just been applied, in the server's order.
C25_Witness ==
    /\ lastOp.op = "handleSearchSuccess"
    /\ lastOp.out = Some([movies |-> <<2, 1>>, totalPages |-> 2])
    /\ movies = <<2, 1>>
    /\ totalPages = 2
    /\ stalePending = 0
    /\ ~latestPending
    /\ filter.minYear = 2000

\* C26: currentPage is 0 in every state, and every search request issued
\* carries page 0.
C26_AlwaysFirstPage ==
    /\ currentPage = 0
    /\ lastRequest # None => lastRequest[1].page = Some(0)

\* C26 witness: nextPage() has just issued a search from a two-page result; the
\* page is 0 and the request carries page 0.
C26_Witness ==
    /\ lastOp.op = "nextPage"
    /\ totalPages = 2
    /\ latestPending
    /\ isLoading
    /\ currentPage = 0
    /\ lastRequest # None
    /\ lastRequest[1].page = Some(0)
    /\ lastRequest[1].minYear = Some(2000)

\* C27: isLoading is true exactly while at least one issued search has not had
\* its response handled.
C27_LoadingTracksPending == isLoading <=> PendingSearches > 0

\* C28 as claimed: add wins. In the state after the add for id m has resolved
\* successfully isMovieInWatchlist(m) is true, and it is still true after the
\* next step, whatever that step is.
C28_AddWins ==
    [][\A m \in MovieIds :
          lastOp = Op("addSuccess", m) =>
             isMovieInWatchlist(m) /\ isMovieInWatchlist(m)']_vars

\* C28 amended: last write wins. A successful add for id m makes
\* isMovieInWatchlist(m) true, and isMovieInWatchlist(m) turns from true to
\* false only when a lookup for m completes with the value false.
C28_LastWriteWins ==
    [][/\ lastOp'.op = "addSuccess" => movieWatchlistStatus'[lastOp'.arg] = Some(TRUE)
       /\ \A m \in MovieIds :
             (isMovieInWatchlist(m) /\ ~isMovieInWatchlist(m)') =>
                 /\ lastOp'.op = "lookupSuccess"
                 /\ lastOp'.arg = m
                 /\ lastOp'.out = Some(FALSE)]_vars

\* C28 witness: an add for id 2 has completed, and a lookup for 2 has just
\* completed after it with the value false.
C28_Witness ==
    /\ lastOp.op = "lookupSuccess"
    /\ lastOp.arg = 2
    /\ lastOp.out = Some(FALSE)
    /\ isAddingToWatchlist[2] = Some(FALSE)
    /\ pendingAdds[2] = 0
    /\ ~isMovieInWatchlist(2)

\* C29: already in the watchlist. When the user is authenticated and the cache
\* entry of id m is true, quickAddToWatchlist(m) issues no Watchlist Service
\* call, navigates to /movies/m and leaves the cache and the in-flight flags
\* unchanged.
C29_AlreadyInWatchlist ==
    [][(/\ lastOp'.op = "quickAddToWatchlist"
        /\ isAuthenticated /\ AuthService_isAuthenticated
        /\ movieWatchlistStatus[lastOp'.arg] = Some(TRUE)) =>
         /\ pendingAdds' = pendingAdds
         /\ pendingLookups' = pendingLookups
         /\ navigated' = <<"/movies", lastOp'.arg>>
         /\ UNCHANGED <<movieWatchlistStatus, isAddingToWatchlist>>]_vars

\* C29 witness: quick add of id 2, already in the watchlist, has just opened
\* the detail view of 2.
C29_Witness ==
    /\ lastOp = Op("quickAddToWatchlist", 2)
    /\ movieWatchlistStatus[2] = Some(TRUE)
    /\ navigated = <<"/movies", 2>>
    /\ pendingAdds[2] = 0

\* C30: page size consistency. When the response of the most recently issued
\* search is displayed, pageSize equals the size field of that search's
\* request.
C30_PageSizeConsistent ==
    [][(lastOp'.op = "handleSearchSuccess" /\ latestPending /\ ~latestPending') =>
         lastRequest[1].size = Some(pageSize')]_vars

\* C31: session state agreement. After a login response or a logout,
\* AuthService.isAuthenticated() equals the value last emitted on
\* isAuthenticated$; it is true after a successful login and false after a
\* logout.
C31_SessionAgreement ==
    [][lastOp'.op \in {"loginSuccess", "loginError", "logout"} =>
         /\ AuthService_isAuthenticated' = isAuthenticatedSubject'
         /\ lastOp'.op = "loginSuccess" => AuthService_isAuthenticated'
         /\ lastOp'.op = "logout" => ~AuthService_isAuthenticated']_vars

\* C32: AuthGuard.canActivate returns true and does not navigate when
\* AuthService.isAuthenticated() is true at the call; otherwise it returns false
\* and navigates to /login with the requested URL as returnUrl.
C32_GuardDecision ==
    [][lastOp'.op = "canActivate" =>
         IF AuthService_isAuthenticated
           THEN lastOp'.out = Some(TRUE) /\ navigated' = navigated
           ELSE /\ lastOp'.out = Some(FALSE)
                /\ navigated' = <<"/login", "returnUrl", GuardedUrls[lastOp'.arg]>>]_vars

\* C32 witness: the guard has just refused /watchlist after a login that the
\* server accepted, and sent the user to /login with returnUrl /watchlist.
C32_Witness ==
    /\ lastOp.op = "canActivate"
    /\ lastOp.out = Some(FALSE)
    /\ isAuthenticatedSubject
    /\ ~AuthService_isAuthenticated
    /\ navigated = <<"/login", "returnUrl", "/watchlist">>

\* C33: getMovieReviews never delivers an error: whatever the HTTP outcome,
\* the subscriber's next callback runs; for every failing status it receives
\* the empty page, and loadReviews ends with isLoadingReviews false.
C33_ReviewsNeverFail ==
    [][lastOp'.op = "reviewsLoaded" =>
         /\ lastOp'.out[1].kind = "next"
         /\ ~detail'.isLoadingReviews
         /\ lastOp'.arg # 200 =>
              /\ lastOp'.out[1].value.reviews = <<>>
              /\ lastOp'.out[1].value.currentPage = 0
              /\ lastOp'.out[1].value.totalPages = 0
              /\ lastOp'.out[1].value.totalResults = 0
              /\ detail'.reviews = <<>>
              /\ detail'.totalPages = 0
              /\ detail'.totalReviews = 0]_vars

\* a load failed with status 500 while the pager is on page 1: no reviews shown
C33_Witness ==
    /\ lastOp.op = "reviewsLoaded"
    /\ lastOp.arg = 500
    /\ detail.reviews = <<>>
    /\ ~detail.isLoadingReviews
    /\ detail.currentReviewPage = 1

\* C34: outside a load, 0 <= currentReviewPage <= max(0, totalPages - 1);
\* previousPage at page 0 and nextPage at page totalPages - 1 issue no request.
C34_PagerBounds ==
    /\ [](detailCalls.loads = 0 =>
            /\ 0 <= detail.currentReviewPage
            /\ detail.currentReviewPage <=
                 (IF detail.totalPages - 1 > 0 THEN detail.totalPages - 1 ELSE 0))
    /\ [][/\ (lastOp'.op = "previousPage" /\ detail.currentReviewPage = 0) =>
               UNCHANGED <<detail, detailCalls>>
          /\ (lastOp'.op = "nextPage"
                /\ detail.currentReviewPage = detail.totalPages - 1) =>
               UNCHANGED <<detail, detailCalls>>]_vars

\* C35: submitReview issues a request only when the rating is positive, the
\* trimmed title and content are not empty and a movie is loaded; a failed
\* request leaves the form, editingReview and the reviews as they were and
\* sets isSubmitting to false; a successful one resets the form, sets
\* editingReview to null and reloads the reviews.
C35_Submission ==
    [][/\ (lastOp'.op = "submitReview"
             /\ detailCalls'.submits # detailCalls.submits) =>
            /\ detailCalls'.submits = detailCalls.submits + 1
            /\ detail.reviewForm.rating > 0
            /\ trim(detail.reviewForm.title) # <<>>
            /\ trim(detail.reviewForm.content) # <<>>
            /\ detail.movie # None
       /\ lastOp'.op = "submitError" =>
            /\ detail'.reviewForm = detail.reviewForm
            /\ detail'.editingReview = detail.editingReview
            /\ detail'.reviews = detail.reviews
            /\ ~detail'.isSubmitting
            /\ detailCalls'.loads = detailCalls.loads
       /\ lastOp'.op = "submitSuccess" =>
            /\ detail'.reviewForm.rating = 0
            /\ detail'.reviewForm.title = <<>>
            /\ detail'.reviewForm.content = <<>>
            /\ detail'.editingReview = <<>>
            /\ ~detail'.isSubmitting
            /\ detail'.isLoadingReviews
            /\ detailCalls'.loads = detailCalls.loads + 1]_vars

\* the update of review 2, its title retyped with spaces around it, has failed
C35_Witness ==
    /\ lastOp.op = "submitError"
    /\ detail.editingReview = <<2>>
    /\ detail.reviewForm.title = <<" ", "a", " ">>
    /\ detail.reviewForm.rating = 4
    /\ ~detail.isSubmitting
    /\ Len(detail.reviews) = 2

\* C37: without a session toggleLike issues no request and changes nothing;
\* no review shows a negative likesCount; a failed like or unlike leaves the
\* reviews as they were.
C37_LikeToggling ==
    /\ [](\A i \in DOMAIN detail.reviews : detail.reviews[i].likesCount >= 0)
    /\ [][/\ (lastOp'.op = "toggleLike" /\ ~AuthService_isAuthenticated) =>
               UNCHANGED <<detail, detailCalls>>
          /\ lastOp'.op \in {"likeError", "unlikeError"} =>
               detail'.reviews = detail.reviews]_vars

\* C36 as stated: every list request of nextPage or prevPage carries a page p
\* with 0 <= p <= totalPages - 1, for totalPages as known when the request is
\* issued; nextPage at the last page and prevPage at page 0 issue no request;
\* filterByStatus requests page 0 of the status selected.
C36_RequestsWithinPages ==
    [][/\ (lastOp'.op \in {"watchlistNextPage", "watchlistPrevPage"}
             /\ watchlistCalls'.lists # watchlistCalls.lists) =>
            /\ 0 <= watchlistCalls'.lastList[1].page
            /\ watchlistCalls'.lastList[1].page <= watchlistPage.totalPages - 1
       /\ (lastOp'.op = "watchlistNextPage"
             /\ watchlistPage.currentPage = watchlistPage.totalPages - 1) =>
            UNCHANGED <<watchlistPage, watchlistCalls>>
       /\ (lastOp'.op = "watchlistPrevPage" /\ watchlistPage.currentPage = 0) =>
            UNCHANGED <<watchlistPage, watchlistCalls>>
       /\ lastOp'.op = "filterByStatus" =>
            /\ watchlistCalls'.lists = watchlistCalls.lists + 1
            /\ watchlistCalls'.lastList[1].page = 0
            /\ watchlistCalls'.lastList[1].status = watchlistPage'.selectedStatus]_vars

\* C36, amended: nextPage requests page currentPage + 1, and only when that
\* is at most totalPages - 1; prevPage requests page currentPage - 1, and only
\* when that is at least 0; both keep the selected status; nextPage at or
\* beyond the last page and prevPage at page 0 issue no request and change
\* nothing; filterByStatus requests page 0 of the status selected.
C36_PagerRequests ==
    [][/\ (lastOp'.op = "watchlistNextPage"
             /\ watchlistCalls'.lists # watchlistCalls.lists) =>
            /\ watchlistCalls'.lastList[1].page = watchlistPage.currentPage + 1
            /\ watchlistCalls'.lastList[1].page <= watchlistPage.totalPages - 1
            /\ watchlistCalls'.lastList[1].status = watchlistPage.selectedStatus
       /\ (lastOp'.op = "watchlistPrevPage"
             /\ watchlistCalls'.lists # watchlistCalls.lists) =>
            /\ watchlistCalls'.lastList[1].page = watchlistPage.currentPage - 1
            /\ watchlistCalls'.lastList[1].page >= 0
            /\ watchlistCalls'.lastList[1].status = watchlistPage.selectedStatus
       /\ (lastOp'.op = "watchlistNextPage"
             /\ watchlistPage.currentPage >= watchlistPage.totalPages - 1) =>
            UNCHANGED <<watchlistPage, watchlistCalls>>
       /\ (lastOp'.op = "watchlistPrevPage" /\ watchlistPage.currentPage = 0) =>
            UNCHANGED <<watchlistPage, watchlistCalls>>
       /\ lastOp'.op = "filterByStatus" =>
            /\ watchlistCalls'.lists = watchlistCalls.lists + 1
            /\ watchlistCalls'.lastList[1].page = 0
            /\ watchlistCalls'.lastList[1].status = watchlistPage'.selectedStatus]_vars

\* prevPage has requested page 1 of the watched items while the list is known
\* to have one page
C36_Witness ==
    /\ lastOp.op = "watchlistPrevPage"
    /\ watchlistCalls.lastList[1].status = "WATCHED"
    /\ watchlistCalls.lastList[1].page = 1
    /\ watchlistPage.currentPage = 1
    /\ watchlistPage.totalPages = 1
    /\ watchlistPage.isLoading

====
